---------------------------- MODULE Spec2Model ----------------------------
(***************************************************************************)
(* A model of the smart-city chat assistant: the sentiment scorer and mood *)
(* aggregator (shared/utils/mood.py), the result aggregator                *)
(* (agents/agglomerator.py), the intent extractor                          *)
(* (agents/intent_extractor/agent.py) and the /chat handler with its       *)
(* dispatcher (apps/orchestrator/main.py) together with the cache and      *)
(* history functions of tools/firestore.py it calls.                       *)
(*                                                                         *)
(* Numbers.  Polarities are integers in tenths (10 is 1.0).  A score is an *)
(* integer in units of 1/(10*Lcm), where Lcm is a common multiple of every *)
(* possible divisor of an average, so that every average is exact.  The    *)
(* floating point of the source is modelled by exact rationals.            *)
(*                                                                         *)
(* Text.  A string is a sequence of atoms; an atom is a whole word, one    *)
(* space " ", or a punctuation mark.  Matching is computed atom by atom.   *)
(***************************************************************************)
EXTENDS Integers, Sequences, FiniteSets, TLC

VARIABLES
    unified,      \* mood: the UnifiedResult handed to aggregate_mood_from_unified_data
    moodOut,      \* mood: the MoodResult returned, or NoResult
    sentOut,      \* mood: per source, what analyze_sentiment returned inside the call
    aggArgs,      \* aggregator: the arguments of a call of aggregate_api_results
    aggOut,       \* aggregator: what the call returned or raised, or NoResult
    imsg,         \* extract_intent: the message of the call
    ipc,          \* extract_intent: "idle", "cascade", "llm" or "done"
    itried,       \* extract_intent: how many patterns of the cascade were tried
    illmCalls,    \* extract_intent: how often the LLM collaborator was invoked
    illmOut,      \* extract_intent: what the LLM collaborator did, or NoResult
    iout,         \* extract_intent: the value returned, or NoResult
    cache,        \* the unified_data collection, oldest document first
    cacheNext,    \* the id the next document of the collection gets
    seeded,       \* how many documents were added before the request
    history,      \* the user_query_history collection, oldest record first
    cpc,          \* chat_router: the step the request is at
    creq,         \* chat_router: the request, user_id and message
    cintent,      \* chat_router: intent
    centities,    \* chat_router: entities
    cbranch,      \* dispatch_tool: the branch taken
    csuccess,     \* chat_router: success
    creply,       \* chat_router: reply
    crejected,    \* dispatch_tool: id of the cached entry found unusable, or 0
    cstored,      \* chat_router: the history document it stored and how the store ended
    cout,         \* chat_router: what the caller got, or NoResult
    hcalls,       \* concurrent chat requests: the step and the request of each
    wcalls,       \* concurrent cache writers: the step, payload and timestamp of each
    now,          \* the clock the timestamps are read from
    shared,       \* the unified_data documents of one location, with timestamps
    seen,         \* what the last read of the collection returned first, or NoResult
    lastAdd,      \* per source type, the document whose add completed last
    rask,         \* history question: the user, the message and how the read ended, or NoResult
    rreply,       \* history question: the reply of the handler, or NoResult
    gcall,        \* cache read: the function called and its force_refresh, or NoResult
    gpc,          \* cache read: the step the call is at
    gfresh,       \* cache read: a document of the requested type is within the TTL
    gdepth,       \* cache read: _recursion_depth of the running get_unified_data_from_firestore
    glevel,       \* cache read: how often the two functions called themselves, each
    gloads,       \* cache read: calls of load_unified_data_to_firestore made so far
    gout,         \* cache read: what the call returned, or NoResult
    pcalls,       \* profile updates: the step, the profile_data and the document read of each call
    profile,      \* the user_profiles document of one user, or NoResult
    job_status,   \* the job_status dict of the podcast server: job id -> entry, or NoJob
    jtask,        \* the position of each job's background task
    jdeleted,     \* the job ids a DELETE request removed
    jresp,        \* the response of the last status, list or delete request
    lmreq,        \* /location_mood: the request and what the sources hold when it arrives, or NoResult
    lmout         \* /location_mood: the response, or NoResult

moodVars == <<unified, moodOut, sentOut>>
aggVars == <<aggArgs, aggOut>>
intentVars == <<imsg, ipc, itried, illmCalls, illmOut, iout>>
storeVars == <<cache, cacheNext, seeded, history>>
chatVars == <<cpc, creq, cintent, centities, cbranch, csuccess, creply, crejected, cstored, cout>>
histVars == <<hcalls>>
writeVars == <<wcalls, now, shared, seen, lastAdd>>
recallVars == <<rask, rreply>>
reloadVars == <<gcall, gpc, gfresh, gdepth, glevel, gloads, gout>>
profileVars == <<pcalls, profile>>
jobVars == <<job_status, jtask, jdeleted, jresp>>
locVars == <<lmreq, lmout>>
vars == <<moodVars, aggVars, intentVars, storeVars, chatVars, histVars, writeVars, recallVars, reloadVars, profileVars, jobVars, locVars>>

\* What the actions of one component leave alone: the other components.
MoodFrame == UNCHANGED <<aggVars, intentVars, storeVars, chatVars, histVars, writeVars, recallVars, reloadVars, profileVars, jobVars, locVars>>
AggFrame == UNCHANGED <<moodVars, intentVars, storeVars, chatVars, histVars, writeVars, recallVars, reloadVars, profileVars, jobVars, locVars>>
IntentFrame == UNCHANGED <<moodVars, aggVars, storeVars, chatVars, histVars, writeVars, recallVars, reloadVars, profileVars, jobVars, locVars>>
ChatFrame == UNCHANGED <<moodVars, aggVars, intentVars, histVars, writeVars, recallVars, reloadVars, profileVars, jobVars, locVars>>
HistFrame ==
    UNCHANGED <<moodVars, aggVars, intentVars, chatVars, cache, cacheNext, seeded, writeVars, recallVars, reloadVars, profileVars, jobVars, locVars>>
WriteFrame == UNCHANGED <<moodVars, aggVars, intentVars, storeVars, chatVars, histVars, recallVars, reloadVars, profileVars, jobVars, locVars>>
RecallFrame ==
    UNCHANGED <<moodVars, aggVars, intentVars, chatVars, cache, cacheNext, seeded, histVars, writeVars, reloadVars, profileVars, jobVars, locVars>>
ReloadFrame ==
    UNCHANGED <<moodVars, aggVars, intentVars, storeVars, chatVars, histVars, writeVars, recallVars, profileVars, jobVars, locVars>>
ProfileFrame ==
    UNCHANGED <<moodVars, aggVars, intentVars, storeVars, chatVars, histVars, writeVars, recallVars, reloadVars, jobVars, locVars>>
JobFrame ==
    UNCHANGED <<moodVars, aggVars, intentVars, storeVars, chatVars, histVars, writeVars, recallVars, reloadVars, profileVars, locVars>>
LocFrame ==
    UNCHANGED <<moodVars, aggVars, intentVars, storeVars, chatVars, histVars, writeVars, recallVars, reloadVars, profileVars, jobVars>>

NoResult == [none |-> TRUE]

(***************************************************************************)
(* Generic helpers.                                                        *)
(***************************************************************************)
RECURSIVE Fact(_)
Fact(n) == IF n <= 1 THEN 1 ELSE n * Fact(n - 1)

Range(s) == {s[i] : i \in 1..Len(s)}

RECURSIVE SeqSum(_)
SeqSum(s) == IF s = <<>> THEN 0 ELSE Head(s) + SeqSum(Tail(s))

Abs(x) == IF x < 0 THEN -x ELSE x

(***************************************************************************)
(* Python values: None, a string (a sequence of atoms), a list, a mapping. *)
(***************************************************************************)
VNone == [t |-> "none"]
VStr(s) == [t |-> "str", v |-> s]
VList(l) == [t |-> "list", v |-> l]
VDict(f) == [t |-> "dict", v |-> f]
VBool(b) == [t |-> "bool", v |-> b]
EmptyDict == VDict(<<>>)
EmptyList == VList(<<>>)

\* bool(v)
Truthy(v) ==
    CASE v.t = "none" -> FALSE
      [] v.t = "bool" -> v.v
      [] v.t = "dict" -> DOMAIN v.v # {}
      [] OTHER -> v.v # <<>>

\* `k in v` for a key k: a key of a mapping, an element of a list.
HasKey(v, k) ==
    CASE v.t = "dict" -> k \in DOMAIN v.v
      [] v.t = "list" -> VStr(<<k>>) \in Range(v.v)
      [] OTHER -> FALSE

(***************************************************************************)
(* Sentiment scorer and mood aggregator: shared/utils/mood.py              *)
(***************************************************************************)
MaxItems == 2          \* at most this many items over the four text sources

Lcm == Fact(MaxItems)  \* every divisor 1..MaxItems divides it
One == 10 * Lcm        \* the score 1.0

TopKeywords == 5       \* mood.py:25  list(set(keywords))[:5]
TransitTenths == -5    \* mood.py:66  maps_score = -0.5
LabelTenths == 3       \* mood.py:94  the 0.3 of the label thresholds

EVENT_KEYWORDS ==
    << "accident", "protest", "festival", "fire", "parade", "closure",
       "celebration", "concert", "emergency", "strike", "jam", "block",
       "delay", "crowd", "police", "roadwork" >>

\* What the external analyzer (TextBlob) and the keyword scan see in a text:
\* its polarity in tenths, its noun phrases, the event keywords in it.
NoText == [pol |-> 0, nps |-> {}, evs |-> {}, empty |-> TRUE]
Txt(p, n, e) == [pol |-> p, nps |-> n, evs |-> e, empty |-> FALSE]

TGlad  == Txt(10, {"k1", "k2", "k3"}, {"festival"})
TGood  == Txt(8, {"k4", "k5", "k6"}, {})
TGrim  == Txt(-10, {"k1"}, {"accident", "fire"})
TBlank == Txt(0, {}, {})          \* a whitespace-only text: not empty

\* An item of a source list: a plain string, or a mapping with some of the
\* fields text, title, description (a missing field is NoText).
StrItem(t) == [dict |-> FALSE, text |-> t, title |-> NoText, description |-> NoText]
DictItem(t, ti, d) == [dict |-> TRUE, text |-> t, title |-> ti, description |-> d]

Items ==
    { StrItem(NoText),                      \* ""
      DictItem(NoText, NoText, NoText),     \* {} or {"url": ...}
      StrItem(TGlad),
      DictItem(NoText, TGood, TGrim),       \* title used, description ignored
      DictItem(NoText, NoText, TGrim),
      StrItem(TBlank) }

\* `if not t`: the empty string and the empty mapping are falsy.  A mapping
\* with none of the three fields is modelled as one holding other keys only
\* when it is reached through Content.
Falsy(t) == (~t.dict) /\ t.text.empty

\* t.get("text") or t.get("title") or t.get("description") or "" ; str(t)
Content(t) ==
    IF t.dict
    THEN IF ~t.text.empty THEN t.text
         ELSE IF ~t.title.empty THEN t.title
         ELSE IF ~t.description.empty THEN t.description
         ELSE NoText
    ELSE t.text

\* The items analyze_sentiment scores: neither falsy nor without content.
Scored(texts) == SelectSeq(texts, LAMBDA t : ~Falsy(t) /\ ~Content(t).empty)

RECURSIVE PolSum(_)
PolSum(ts) == IF ts = <<>> THEN 0 ELSE Content(Head(ts)).pol + PolSum(Tail(ts))

AllKeywords(texts) == UNION {Content(t).nps : t \in Range(Scored(texts))}

SentimentDivisorAll(texts) == Len(texts)
SentimentDivisor(texts) == Len(Scored(texts))

\* avg_score of analyze_sentiment, in units of 1/One.
AvgScore(texts) ==
    IF texts = <<>> THEN 0
    ELSE IF Scored(texts) = <<>> THEN 0
    ELSE (PolSum(Scored(texts)) * Lcm) \div SentimentDivisor(texts)

\* list(set(keywords))[:5]: the order of a set is not fixed, so any
\* selection of min(5, n) of the distinct keywords can be returned.
KeywordCutNone(kws) == {kws}
KeywordCut(kws) ==
    IF Cardinality(kws) <= TopKeywords THEN {kws}
    ELSE {s \in SUBSET kws : Cardinality(s) = TopKeywords}

\* analyze_sentiment(texts): the set of possible (score, keywords) results.
analyze_sentiment(texts) ==
    IF texts = <<>> THEN {[score |-> 0, keywords |-> {}]}
    ELSE {[score |-> AvgScore(texts), keywords |-> k] :
              k \in KeywordCut(AllKeywords(texts))}


\* The event keywords found in one text, in the order of EVENT_KEYWORDS.
KeywordsIn(t) == SelectSeq(EVENT_KEYWORDS, LAMBDA k : k \in Content(t).evs)

\* Append to acc the elements of s that acc does not hold yet.
RECURSIVE AppendNew(_, _)
AppendNew(acc, s) ==
    IF s = <<>> THEN acc
    ELSE AppendNew(IF Head(s) \in Range(acc) THEN acc ELSE Append(acc, Head(s)),
                   Tail(s))

\* The keys of event_counts in insertion order.
RECURSIVE EventOrder(_)
EventOrder(texts) ==
    IF texts = <<>> THEN <<>>
    ELSE LET rest == EventOrder(Tail(texts))
             here == IF Falsy(Head(texts)) THEN <<>> ELSE KeywordsIn(Head(texts))
         IN  AppendNew(here, rest)

EventCount(texts, k) ==
    Len(SelectSeq(texts, LAMBDA t : ~Falsy(t) /\ k \in Content(t).evs))

\* detect_events(texts, source)
detect_events(texts, source) ==
    LET order == EventOrder(texts)
    IN  [i \in 1..Len(order) |->
            [type |-> order[i], count |-> EventCount(texts, order[i]),
             sources |-> <<source>>]]

TextSources == <<"twitter", "reddit", "news", "google_search">>

RECURSIVE FlatEvents(_, _)
FlatEvents(u, srcs) ==
    IF srcs = <<>> THEN <<>>
    ELSE detect_events(u[Head(srcs)], Head(srcs)) \o FlatEvents(u, Tail(srcs))

RECURSIVE TypesOf(_)
TypesOf(evs) == IF evs = <<>> THEN <<>> ELSE <<Head(evs).type>> \o TypesOf(Tail(evs))

RECURSIVE CountOf(_, _)
CountOf(evs, k) ==
    IF evs = <<>> THEN 0
    ELSE (IF Head(evs).type = k THEN Head(evs).count ELSE 0) + CountOf(Tail(evs), k)

SourcesOf(evs, k) ==
    UNION {Range(evs[i].sources) : i \in {j \in 1..Len(evs) : evs[j].type = k}}

\* A merge that keeps the first event of a type as it is.
MergeKeepFirst(evs) ==
    LET order == AppendNew(<<>>, TypesOf(evs))
        first(k) == evs[CHOOSE i \in 1..Len(evs) :
                          evs[i].type = k /\ \A j \in 1..(i - 1) : evs[j].type # k]
    IN  [i \in 1..Len(order) |->
            [type |-> order[i], count |-> first(order[i]).count,
             sources |-> Range(first(order[i]).sources)]]

\* The merge of lines 78-90: one entry per type, counts added, the source
\* names made a set.
MergeEvents(evs) ==
    LET order == AppendNew(<<>>, TypesOf(evs))
    IN  [i \in 1..Len(order) |->
            [type |-> order[i], count |-> CountOf(evs, order[i]),
             sources |-> SourcesOf(evs, order[i])]]

\* The maps value of a UnifiedResult: a mapping that may hold duration and
\* duration_in_traffic (0 stands for a missing key), or an error payload,
\* or a value that is no mapping (a list).
MapsEmpty == [dict |-> TRUE, empty |-> TRUE, duration |-> 0, dit |-> 0]
MapsRoute(d, t) == [dict |-> TRUE, empty |-> FALSE, duration |-> d, dit |-> t]
MapsError == [dict |-> TRUE, empty |-> FALSE, duration |-> 0, dit |-> 0]
MapsList == [dict |-> FALSE, empty |-> FALSE, duration |-> 0, dit |-> 0]
MapsValues ==
    {MapsEmpty, MapsRoute(20, 20), MapsRoute(20, 35), MapsRoute(0, 35), MapsError, MapsList}

\* line 66: -0.5 when duration_in_traffic is there and differs from duration
TransitAlways(m) == TransitTenths * Lcm
TransitWhenBoth(m) ==
    IF m.dict /\ ~m.empty /\ m.dit # 0 /\ m.duration # 0 /\ m.dit # m.duration
    THEN TransitTenths * Lcm ELSE 0
maps_score(m) ==
    IF m.dict /\ ~m.empty /\ m.dit # 0 /\ m.dit # m.duration
    THEN TransitTenths * Lcm ELSE 0

\* round(x, 2) of x = num/den (den > 0), in hundredths, ties to even.
Round2(num, den) ==
    LET n == 100 * num
        q == n \div den
        r == n % den
    IN  IF 2 * r < den THEN q
        ELSE IF 2 * r > den THEN q + 1
        ELSE IF q % 2 = 0 THEN q ELSE q + 1

\* lines 94-101; total is the sum of the five scores, so mood_score is
\* total / (5 * One) and 0.3 is LabelTenths * 5 * Lcm.
LabelNoBusy(total, transit) ==
    IF total > LabelTenths * 5 * Lcm THEN "happy"
    ELSE IF total < -(LabelTenths * 5 * Lcm) THEN "tense"
    ELSE "neutral"
LabelTenseInclusive(total, transit) ==
    IF total > LabelTenths * 5 * Lcm THEN "happy"
    ELSE IF total <= -(LabelTenths * 5 * Lcm) THEN "tense"
    ELSE IF transit < 0 THEN "busy"
    ELSE "neutral"
MoodLabel(total, transit) ==
    IF total > LabelTenths * 5 * Lcm THEN "happy"
    ELSE IF total < -(LabelTenths * 5 * Lcm) THEN "tense"
    ELSE IF transit < 0 THEN "busy"
    ELSE "neutral"

\* aggregate_mood_from_unified_data, given what analyze_sentiment returned
\* for each text source (s : source -> result).
MoodOf(u, s) ==
    LET transit == maps_score(u.maps)
        total == s["twitter"].score + s["reddit"].score + s["news"].score
                 + s["google_search"].score + transit
    IN  [mood_label |-> MoodLabel(total, transit),
         mood_score |-> Round2(total, 5 * One),
         events |-> MergeEvents(FlatEvents(u, TextSources)),
         source_breakdown |->
            [src \in Range(TextSources) \cup {"maps"} |->
                IF src = "maps"
                THEN [score |-> Round2(transit, One),
                      top_keywords |-> IF transit < 0 THEN {"traffic"} ELSE {}]
                ELSE [score |-> Round2(s[src].score, One),
                      top_keywords |-> s[src].keywords]]]

\* The unrounded sum of the five scores of a call.
MoodTotal(u, s) ==
    s["twitter"].score + s["reddit"].score + s["news"].score
    + s["google_search"].score + maps_score(u.maps)

TotalItems(u) == Len(u.twitter) + Len(u.reddit) + Len(u.news) + Len(u.google_search)

EmptyUnified ==
    [twitter |-> <<>>, reddit |-> <<>>, news |-> <<>>, google_search |-> <<>>,
     maps |-> MapsEmpty]


\* The caller's input grows by one item of one source.
MoodAddItem(src, item) ==
    /\ moodOut = NoResult
    /\ TotalItems(unified) < MaxItems
    /\ unified' = [unified EXCEPT ![src] = Append(@, item)]
    /\ UNCHANGED <<moodOut, sentOut>>
    /\ MoodFrame

MoodSetMaps(m) ==
    /\ moodOut = NoResult
    /\ unified.maps = MapsEmpty
    /\ m # MapsEmpty
    /\ unified' = [unified EXCEPT !.maps = m]
    /\ UNCHANGED <<moodOut, sentOut>>
    /\ MoodFrame

\* aggregate_mood_from_unified_data(unified)
AggregateMood ==
    /\ moodOut = NoResult
    /\ \E s \in [Range(TextSources) -> UNION {analyze_sentiment(unified[x]) : x \in Range(TextSources)}] :
          /\ \A x \in Range(TextSources) : s[x] \in analyze_sentiment(unified[x])
          /\ sentOut' = s
          /\ moodOut' = MoodOf(unified, s)
    /\ UNCHANGED unified
    /\ MoodFrame

MoodNext ==
    \/ \E src \in Range(TextSources), item \in Items : MoodAddItem(src, item)
    \/ \E m \in MapsValues : MoodSetMaps(m)
    \/ AggregateMood

(***************************************************************************)
(* Result aggregator: agents/agglomerator.py                               *)
(***************************************************************************)
AggParams ==
    <<"reddit_data", "twitter_data", "news_data", "maps_data", "rag_data",
      "google_search_data">>

\* The key of the result a parameter feeds, and the key of its nested list.
AggKey(p) ==
    CASE p = "reddit_data" -> "reddit"
      [] p = "twitter_data" -> "twitter"
      [] p = "news_data" -> "news"
      [] p = "maps_data" -> "maps"
      [] p = "rag_data" -> "rag"
      [] p = "google_search_data" -> "google_search"

ListKey(p) ==
    CASE p = "reddit_data" -> "posts"
      [] p = "twitter_data" -> "tweets"
      [] p = "news_data" -> "articles"
      [] OTHER -> ""

ErrorPayload == VDict("error" :> VStr(<<"api", " ", "error">>))
OneEntry == VStr(<<"entry">>)

\* The shapes a caller passes for a parameter: nothing, the empty value, a
\* populated value, an error payload, and a populated payload with an error.
AggShapes(p) ==
    IF ListKey(p) # ""
    THEN {VNone, EmptyDict, EmptyList,
          VDict(ListKey(p) :> VList(<<OneEntry>>)),
          ErrorPayload}
    ELSE IF p = "maps_data"
    THEN {VNone, EmptyDict, EmptyList,
          VDict(("duration" :> VStr(<<"20">>)) @@ ("duration_in_traffic" :> VStr(<<"35">>))),
          ErrorPayload}
    ELSE {VNone, EmptyList, VList(<<OneEntry>>), ErrorPayload}

\* lines 15-17: x.get(key) if x and key in x else []
NestedAlways(v, key) == IF Truthy(v) THEN v ELSE EmptyList
Nested(v, key) == IF Truthy(v) /\ HasKey(v, key) THEN v.v[key] ELSE EmptyList

\* lines 18-20: x if x else default
PassThrough(v, default) == IF Truthy(v) THEN v ELSE default

\* aggregate_api_results(**a): lines 14-24
aggregate_api_results(a) ==
    [k \in {"reddit", "twitter", "news", "maps", "rag", "google_search"} |->
        CASE k = "reddit" -> Nested(a["reddit_data"], "posts")
          [] k = "twitter" -> Nested(a["twitter_data"], "tweets")
          [] k = "news" -> Nested(a["news_data"], "articles")
          [] k = "maps" -> PassThrough(a["maps_data"], EmptyDict)
          [] k = "rag" -> PassThrough(a["rag_data"], EmptyList)
          [] k = "google_search" -> PassThrough(a["google_search_data"], EmptyList)]

NoArgs == [p \in Range(AggParams) |-> VNone]
TypeError == [t |-> "TypeError"]

\* The caller fixes one more keyword argument of the call.
AggSetArg(p, v) ==
    /\ aggOut = NoResult
    /\ aggArgs[p] = VNone
    /\ v # VNone
    /\ aggArgs' = [aggArgs EXCEPT ![p] = v]
    /\ UNCHANGED aggOut
    /\ AggFrame

\* aggregate_api_results(...) with the arguments fixed so far
AggCall ==
    /\ aggOut = NoResult
    /\ aggOut' = VDict(aggregate_api_results(aggArgs))
    /\ UNCHANGED aggArgs
    /\ AggFrame

\* city_chatbot_orchestrator (apps/orchestrator/agent.py) also passes
\* firestore_data=..., a keyword the function does not have.
AggCallWithFirestore ==
    /\ aggOut = NoResult
    /\ aggOut' = TypeError
    /\ UNCHANGED aggArgs
    /\ AggFrame

AggNext ==
    \/ \E p \in Range(AggParams) : \E v \in AggShapes(p) : AggSetArg(p, v)
    \/ AggCall
    \/ AggCallWithFirestore

(***************************************************************************)
(* Intent extractor: agents/intent_extractor/agent.py                      *)
(*                                                                         *)
(* A message is a sequence of atoms.  A pattern is a sequence of elements: *)
(* a literal atom (one of a set of alternatives, compared ignoring case),  *)
(* a named group [\w\s]+ (one or more word or space atoms, greedy), or .*  *)
(* (any atoms, greedy).  The search is Python's: the leftmost start, and   *)
(* at a start the longest repetition first, backing off one atom a time.   *)
(***************************************************************************)
Punct == {"?", ",", "!"}
WordOrSpace(a) == a \notin Punct

\* str.lower() on an atom: the atoms written with capitals in the model.
LowerOf(a) ==
    CASE a = "Tweets" -> "tweets"
      [] a = "News" -> "news"
      [] a = "Route" -> "route"
      [] a = "Query" -> "query"
      [] a = "First" -> "first"
      [] a = "No" -> "no"
      [] a = "Error" -> "error"
      [] a = "Twitter" -> "twitter"
      [] a = "Could" -> "could"
      [] OTHER -> a

Lit(w) == [k |-> "lit", ws |-> {w}, name |-> ""]
Alt(S) == [k |-> "lit", ws |-> S, name |-> ""]
Sp == Lit(" ")
Grp(n) == [k |-> "grp", ws |-> {}, name |-> n]
AnyStar == [k |-> "any", ws |-> {}, name |-> ""]

NoMatch == [ok |-> FALSE, caps |-> <<>>]

\* The longest run of atoms from pos on that a repetition can take.
RECURSIVE RunLen(_, _, _)
RunLen(msg, pos, wordOnly) ==
    IF pos > Len(msg) THEN 0
    ELSE IF wordOnly /\ ~WordOrSpace(msg[pos]) THEN 0
    ELSE 1 + RunLen(msg, pos + 1, wordOnly)

RECURSIVE MatchAt(_, _, _, _, _)
RECURSIVE TryLen(_, _, _, _, _, _, _)

\* Elements i.. of pat against msg from pos on, with the groups caught so far.
MatchAt(pat, i, msg, pos, caps) ==
    IF i > Len(pat) THEN [ok |-> TRUE, caps |-> caps]
    ELSE LET e == pat[i]
         IN  CASE e.k = "lit" ->
                    IF pos <= Len(msg) /\ LowerOf(msg[pos]) \in e.ws
                    THEN MatchAt(pat, i + 1, msg, pos + 1, caps)
                    ELSE NoMatch
               [] e.k = "grp" ->
                    TryLen(pat, i, msg, pos, caps, RunLen(msg, pos, TRUE), 1)
               [] e.k = "any" ->
                    TryLen(pat, i, msg, pos, caps, RunLen(msg, pos, FALSE), 0)

\* The repetition at element i takes n atoms, or fewer down to least.
TryLen(pat, i, msg, pos, caps, n, least) ==
    IF n < least THEN NoMatch
    ELSE LET e == pat[i]
             c == IF e.k = "grp"
                  THEN (e.name :> SubSeq(msg, pos, pos + n - 1)) @@ caps
                  ELSE caps
             m == MatchAt(pat, i + 1, msg, pos + n, c)
         IN  IF m.ok THEN m ELSE TryLen(pat, i, msg, pos, caps, n - 1, least)

\* re.search(pat, msg, re.IGNORECASE)
RECURSIVE SearchFrom(_, _, _)
SearchFrom(pat, msg, start) ==
    IF start > Len(msg) THEN NoMatch
    ELSE LET m == MatchAt(pat, 1, msg, start, <<>>)
         IN  IF m.ok THEN m ELSE SearchFrom(pat, msg, start + 1)

Search(pat, msg) == SearchFrom(pat, msg, 1)

\* str.strip() and str.replace(' ', '')
RECURSIVE StripLeft(_)
StripLeft(s) == IF s # <<>> /\ Head(s) = " " THEN StripLeft(Tail(s)) ELSE s

RECURSIVE StripRight(_)
StripRight(s) ==
    IF s # <<>> /\ s[Len(s)] = " " THEN StripRight(SubSeq(s, 1, Len(s) - 1)) ELSE s

Strip(s) == StripRight(StripLeft(s))
RemoveSpaces(s) == SelectSeq(s, LAMBDA a : a # " ")

\* Words separated by single spaces, as a pattern of literals.
RECURSIVE Words(_)
Words(ws) ==
    IF Len(ws) = 0 THEN <<>>
    ELSE IF Len(ws) = 1 THEN <<Lit(ws[1])>>
    ELSE <<Lit(ws[1]), Sp>> \o Words(Tail(ws))

\* The patterns of lines 10-104 in the order they are tried, each with its
\* family.
Patterns ==
    << \* twitter_patterns
       [fam |-> "twitter", pat |-> Words(<<"what", "is", "twitter", "saying", "about">>) \o <<Sp, Grp("location")>>],
       [fam |-> "twitter", pat |-> <<Lit("twitter"), AnyStar, Lit("about"), Sp, Grp("location")>>],
       [fam |-> "twitter", pat |-> <<Alt({"tweet", "tweets"}), Sp, Alt({"about", "in", "for"}), Sp, Grp("location")>>],
       [fam |-> "twitter", pat |-> <<Grp("location"), Sp, Lit("twitter"), Sp, Lit("feed")>>],
       [fam |-> "twitter", pat |-> <<Grp("location"), Sp, Lit("tweets")>>],
       \* reddit_patterns
       [fam |-> "reddit", pat |-> Words(<<"what", "is", "reddit", "saying", "about">>) \o <<Sp, Grp("topic")>>],
       [fam |-> "reddit", pat |-> <<Lit("reddit"), AnyStar, Lit("about"), Sp, Grp("topic")>>],
       [fam |-> "reddit", pat |-> <<Grp("topic"), Sp, Lit("reddit"), Sp, Lit("feed")>>],
       [fam |-> "reddit", pat |-> <<Grp("topic"), Sp, Lit("reddit")>>],
       \* news_patterns
       [fam |-> "news", pat |-> <<Lit("news"), Sp, Alt({"in", "about", "for"}), Sp, Grp("city")>>],
       [fam |-> "news", pat |-> <<Grp("city"), Sp, Lit("news")>>],
       \* firestore_reports_patterns
       [fam |-> "reports", pat |-> <<Alt({"report", "reports"}), Sp, Alt({"in", "about", "for"}), Sp,
                                     Grp("location"), Sp, Alt({"on", "about"}), Sp, Grp("topic")>>],
       [fam |-> "reports", pat |-> <<Grp("location"), Sp, Alt({"report", "reports"}), Sp,
                                     Alt({"on", "about"}), Sp, Grp("topic")>>],
       \* firestore_similar_patterns
       [fam |-> "similar", pat |-> Words(<<"similar", "queries", "for", "user">>) \o
                                   <<Sp, Grp("user_id"), Sp, Alt({"about", "for"}), Sp, Grp("query")>>],
       \* google_search_patterns
       [fam |-> "google", pat |-> Words(<<"google", "search", "for">>) \o <<Sp, Grp("query")>>],
       [fam |-> "google", pat |-> Words(<<"search", "google", "for">>) \o <<Sp, Grp("query")>>],
       [fam |-> "google", pat |-> Words(<<"search", "for">>) \o <<Sp, Grp("query"), Sp, Lit("on"), Sp, Lit("google")>>],
       \* maps_patterns
       [fam |-> "route", pat |-> Words(<<"route", "from">>) \o
                                 <<Sp, Grp("current_location"), Sp, Lit("to"), Sp, Grp("destination")>>],
       [fam |-> "route", pat |-> Words(<<"best", "route">>) \o
                                 <<Sp, Alt({"from", "between"}), Sp, Grp("current_location"), Sp,
                                   Alt({"to", "and"}), Sp, Grp("destination")>>] >>

NPatterns == Len(Patterns)

Intent(name) == VStr(<<name>>)
ParsedQuery(intent, entities) == VDict(("intent" :> Intent(intent)) @@ ("entities" :> VDict(entities)))

\* m.groupdict().get(name, "").strip()
GroupUntrimmed(m, name) == IF name \in DOMAIN m.caps THEN m.caps[name] ELSE <<>>
Group(m, name) == IF name \in DOMAIN m.caps THEN Strip(m.caps[name]) ELSE <<>>

\* A reports family that returns the topic 'general', as the twitter
\* family does, and no other family.
FamilyResultNoTopic(fam, m) ==
    IF fam = "reports" /\ Group(m, "location") # <<>> /\ Group(m, "topic") # <<>>
    THEN ParsedQuery("get_firestore_reports",
            ("location" :> VStr(Group(m, "location"))) @@ ("topic" :> VStr(<<"general">>)))
    ELSE NoResult

\* What a family returns for a match m, or NoResult when a group is blank.
FamilyResult(fam, m) ==
    CASE fam = "twitter" ->
            IF Group(m, "location") # <<>>
            THEN ParsedQuery("get_twitter_posts",
                    ("location" :> VStr(Group(m, "location"))) @@ ("topic" :> VStr(<<"general">>)))
            ELSE NoResult
      [] fam = "reddit" ->
            IF Group(m, "topic") # <<>>
            THEN ParsedQuery("get_reddit_posts",
                    ("subreddit" :> VStr(RemoveSpaces(Group(m, "topic"))))
                    @@ ("topic" :> VStr(Group(m, "topic"))))
            ELSE NoResult
      [] fam = "news" ->
            IF Group(m, "city") # <<>>
            THEN ParsedQuery("get_city_news",
                    ("city" :> VStr(Group(m, "city"))) @@ ("location" :> VStr(Group(m, "city"))))
            ELSE NoResult
      [] fam = "reports" ->
            IF Group(m, "location") # <<>> /\ Group(m, "topic") # <<>>
            THEN ParsedQuery("get_firestore_reports",
                    ("location" :> VStr(Group(m, "location"))) @@ ("topic" :> VStr(Group(m, "topic"))))
            ELSE NoResult
      [] fam = "similar" ->
            IF Group(m, "user_id") # <<>> /\ Group(m, "query") # <<>>
            THEN ParsedQuery("get_similar_queries",
                    ("user_id" :> VStr(Group(m, "user_id"))) @@ ("query" :> VStr(Group(m, "query"))))
            ELSE NoResult
      [] fam = "google" ->
            IF Group(m, "query") # <<>>
            THEN ParsedQuery("google_search", "query" :> VStr(Group(m, "query")))
            ELSE NoResult
      [] fam = "route" ->
            IF Group(m, "current_location") # <<>> /\ Group(m, "destination") # <<>>
            THEN ParsedQuery("get_best_route",
                    ("current_location" :> VStr(Group(m, "current_location")))
                    @@ ("destination" :> VStr(Group(m, "destination"))))
            ELSE NoResult

\* A cascade without the loop over the route patterns.
TryPatternNoRoute(k, msg) ==
    LET m == Search(Patterns[k].pat, msg)
    IN  IF m.ok /\ Patterns[k].fam # "route" THEN FamilyResult(Patterns[k].fam, m) ELSE NoResult

\* One turn of a `for pat in ..._patterns` loop: pattern k against msg.
TryPattern(k, msg) ==
    LET m == Search(Patterns[k].pat, msg)
    IN  IF m.ok THEN FamilyResult(Patterns[k].fam, m) ELSE NoResult

\* The cascade from pattern k on: the first pattern that returns.
RECURSIVE CascadeFrom(_, _)
CascadeFrom(k, msg) ==
    IF k > NPatterns THEN NoResult
    ELSE IF TryPattern(k, msg) # NoResult THEN TryPattern(k, msg)
    ELSE CascadeFrom(k + 1, msg)

Cascade(msg) == CascadeFrom(1, msg)

(***************************************************************************)
(* The LLM fallback of extract_intent, lines 134-152.  The text the LLM    *)
(* returns is a sequence of segments: prose without braces, a lone "{" or  *)
(* "}", a well-formed JSON object (with the value it parses to), the empty *)
(* object "{}", or braces around text that is no JSON.                     *)
(***************************************************************************)
MaxSegs == 2           \* at most this many segments in an LLM response

Seg(k, val) == [k |-> k, val |-> val]
Prose == Seg("prose", VNone)
OpenBrace == Seg("open", VNone)
CloseBrace == Seg("close", VNone)
Obj(val) == Seg("obj", val)
EmptyObj == Seg("emptyobj", EmptyDict)
BadObj == Seg("badobj", VNone)

Unknown == ParsedQuery("unknown", <<>>)

\* JSON objects an LLM may answer with.
JPlaces == ParsedQuery("get_must_visit_places", "location" :> VStr(<<"Delhi">>))
JNoEntities == VDict("intent" :> Intent("traffic"))
JBadTypes == VDict(("intent" :> VNone) @@ ("entities" :> VList(<<>>)))

Segments == {Prose, OpenBrace, CloseBrace, Obj(JPlaces), Obj(JNoEntities),
             Obj(JBadTypes), EmptyObj, BadObj}

HasOpen(g) == g.k \in {"open", "obj", "emptyobj", "badobj"}
HasClose(g) == g.k \in {"close", "obj", "emptyobj", "badobj"}

Min(S) == CHOOSE x \in S : \A y \in S : x <= y
Max(S) == CHOOSE x \in S : \A y \in S : x >= y

\* re.search(r'\{[\s\S]+\}', text) followed by json.loads of the match:
\* from the first "{" to the last "}".  [kind |-> "none"] no match,
\* "invalid" a match json.loads rejects, "value" a match it parses.
JsonExtract(text) ==
    LET opens == {i \in 1..Len(text) : HasOpen(text[i])}
        closes == {i \in 1..Len(text) : HasClose(text[i])}
    IN  IF opens = {} \/ closes = {} THEN [kind |-> "none", val |-> VNone]
        ELSE LET i == Min(opens)
                 j == Max(closes)
             IN  IF j < i THEN [kind |-> "none", val |-> VNone]
                 ELSE IF j > i THEN [kind |-> "invalid", val |-> VNone]
                 ELSE IF text[i].k = "emptyobj" THEN [kind |-> "none", val |-> VNone]
                 ELSE IF text[i].k = "badobj" THEN [kind |-> "invalid", val |-> VNone]
                 ELSE [kind |-> "value", val |-> text[i].val]

\* What the LLM collaborator does: raises, or returns a text.
LLMRaises == [raises |-> TRUE, text |-> <<>>]
LLMText(t) == [raises |-> FALSE, text |-> t]

RECURSIVE SeqsUpTo(_, _)
SeqsUpTo(S, n) ==
    IF n = 0 THEN {<<>>}
    ELSE LET shorter == SeqsUpTo(S, n - 1)
         IN  shorter \cup {Append(q, x) : q \in shorter, x \in S}

LLMOutcomes == {LLMRaises} \cup {LLMText(t) : t \in SeqsUpTo(Segments, MaxSegs)}

\* lines 134-152: the value extract_intent returns once the cascade failed
LLMResult(o) ==
    IF o.raises THEN Unknown
    ELSE LET x == JsonExtract(o.text)
         IN  IF x.kind = "value" THEN x.val ELSE Unknown

\* extract_intent(msg) when the cascade gives c (a result or NoResult) and
\* the LLM collaborator, if asked, does o
ExtractIntent(c, o) == IF c # NoResult THEN c ELSE LLMResult(o)

(***************************************************************************)
(* The messages extract_intent is called with: the documented query shapes *)
(* with their slots filled, free text, the empty and the blank message.    *)
(***************************************************************************)
Join2(a, b) == a \o <<" ">> \o b

Fillers ==
    { <<"Delhi">>, <<"news">>, <<"to">>, <<"?">>, <<" ">>,
      <<"Delhi", " ", "Mumbai">>, <<"Delhi", " ", "on", " ", "tweets">>,
      <<"what", " ", "reddit">> }

RECURSIVE Spaced(_)
Spaced(ws) ==
    IF Len(ws) = 0 THEN <<>>
    ELSE IF Len(ws) = 1 THEN <<ws[1]>>
    ELSE <<ws[1], " ">> \o Spaced(Tail(ws))

OneSlot(x) ==
    { x,
      Join2(Spaced(<<"what", "is", "twitter", "saying", "about">>), x),
      Join2(Spaced(<<"twitter", "talk", "about">>), x),
      Join2(Spaced(<<"tweets", "in">>), x),
      Join2(x, Spaced(<<"twitter", "feed">>)),
      Join2(x, <<"tweets">>),
      Join2(x, <<"Tweets">>),
      Join2(Spaced(<<"what", "is", "reddit", "saying", "about">>), x),
      Join2(x, Spaced(<<"reddit", "feed">>)),
      Join2(x, <<"reddit">>),
      Join2(Spaced(<<"news", "in">>), x),
      Join2(x, <<"news">>),
      Join2(Spaced(<<"google", "search", "for">>), x),
      Join2(Spaced(<<"search", "google", "for">>), x),
      Join2(Join2(Spaced(<<"search", "for">>), x), Spaced(<<"on", "google">>)),
      Join2(Spaced(<<"places", "to", "visit", "in">>), x),
      Join2(Spaced(<<"what", "was", "my", "first", "query">>), x) }

TwoSlot(x, y) ==
    { Join2(Join2(Join2(Spaced(<<"reports", "in">>), x), <<"on">>), y),
      Join2(Join2(Join2(x, Spaced(<<"report", "about">>)), y), <<"?">>),
      Join2(Join2(Join2(Spaced(<<"similar", "queries", "for", "user">>), x), <<"about">>), y),
      Join2(Join2(Join2(Spaced(<<"route", "from">>), x), <<"to">>), y),
      Join2(Join2(Join2(Spaced(<<"best", "route", "between">>), x), <<"and">>), y) }

\* Further messages of the documented shapes: the examples of the
\* documentation, a doubled space, a comma inside a place name, and place
\* names that hold the word a route pattern splits on.
ShapeExamples ==
    { <<"Bangalore", " ", "tweets">>,
      <<"Bangalore", " ", " ", "tweets">>,
      <<"Bengaluru", ",", " ", "Karnataka", " ", "tweets">>,
      Spaced(<<"route", "from", "Delhi", "to", "Mumbai">>),
      Spaced(<<"route", "from", "Delhi", "to", "Mumbai", "to", "Pune">>),
      Spaced(<<"best", "route", "between", "Koramangala", "and", "Whitefield">>),
      Spaced(<<"best", "route", "between", "Chennai", "and", "Andaman", "and", "Nicobar">>),
      Spaced(<<"reports", "in", "Koramangala", "on", "flooding">>),
      Spaced(<<"reports", "in", "tweets", "on", "flooding">>),
      Spaced(<<"reports", "in", "Delhi", "on", "reddit">>) }

\* Free text that patterns of several families match, one of them with a
\* blank group: 'route from Delhi to Mumbai news ?  tweets'.
MixedExamples ==
    { Spaced(<<"route", "from", "Delhi", "to", "Mumbai", "news">>)
        \o <<" ", "?", " ", " ", "tweets">>,
      <<" ", " ", "tweets", " ", "news">> }

IntentMessages ==
    {<<>>, <<" ">>}
    \cup ShapeExamples
    \cup MixedExamples
    \cup UNION {OneSlot(x) : x \in Fillers}
    \cup UNION {TwoSlot(x, y) : x \in Fillers, y \in Fillers}

\* extract_intent(message) is entered.
IntentCall(msg) ==
    /\ ipc = "idle"
    /\ imsg' = msg
    /\ ipc' = "cascade"
    /\ UNCHANGED <<itried, illmCalls, illmOut, iout>>
    /\ IntentFrame

\* A cascade that keeps trying after a pattern returned.
IntentTryPatternOverride ==
    /\ ipc = "cascade"
    /\ itried < NPatterns
    /\ LET r == TryPattern(itried + 1, imsg)
           out == IF r # NoResult THEN r ELSE iout
       IN  /\ itried' = itried + 1
           /\ iout' = out
           /\ ipc' = (IF itried + 1 < NPatterns THEN "cascade"
                      ELSE IF out # NoResult THEN "done" ELSE "llm")
    /\ UNCHANGED <<imsg, illmCalls, illmOut>>
    /\ IntentFrame

\* One turn of the pattern loops, lines 17-114.
IntentTryPattern ==
    /\ ipc = "cascade"
    /\ itried < NPatterns
    /\ LET r == TryPattern(itried + 1, imsg)
       IN  /\ itried' = itried + 1
           /\ IF r # NoResult
              THEN iout' = r /\ ipc' = "done"
              ELSE iout' = iout /\ ipc' = (IF itried + 1 = NPatterns THEN "llm" ELSE "cascade")
    /\ UNCHANGED <<imsg, illmCalls, illmOut>>
    /\ IntentFrame

\* Lines 116-152: the prompt is sent, the answer parsed, the value returned.
IntentCallLLM(o) ==
    /\ ipc = "llm"
    /\ illmCalls' = illmCalls + 1
    /\ illmOut' = o
    /\ iout' = LLMResult(o)
    /\ ipc' = "done"
    /\ UNCHANGED <<imsg, itried>>
    /\ IntentFrame

IntentNext ==
    \/ \E msg \in IntentMessages : IntentCall(msg)
    \/ IntentTryPattern
    \/ \E o \in LLMOutcomes : IntentCallLLM(o)

(***************************************************************************)
(* The cache collaborator: the unified_data collection of                  *)
(* src/tools/firestore.py.  The collection is a sequence of documents in   *)
(* the order they were added, so in the order of their timestamps.  Only   *)
(* documents of the types the chat handler reads are kept; the twitter,    *)
(* rag and aggregated documents a reload also adds are read by no step of  *)
(* the handler.  A document older than the 24 hours of the read is marked  *)
(* stale.                                                                  *)
(***************************************************************************)
MaxCache == 2          \* documents added to the cache before the request

Str(ws) == VStr(Spaced(ws))
Lower(s) == [i \in DOMAIN s |-> LowerOf(s[i])]

\* needle in hay, for sequences of atoms
Contains(hay, needle) ==
    \E i \in 0..(Len(hay) - Len(needle)) :
        \A j \in 1..Len(needle) : hay[i + j] = needle[j]

StartsWith(s, p) == Len(p) <= Len(s) /\ SubSeq(s, 1, Len(p)) = p

RECURSIVE Reverse(_)
Reverse(s) == IF s = <<>> THEN <<>> ELSE Append(Reverse(Tail(s)), Head(s))

\* sep.join(l) for a list l of str values
RECURSIVE JoinStr(_, _)
JoinStr(sep, l) ==
    IF l = <<>> THEN <<>>
    ELSE IF Len(l) = 1 THEN l[1].v
    ELSE l[1].v \o <<sep>> \o JoinStr(sep, Tail(l))

AllStr(l) == \A i \in DOMAIN l : l[i].t = "str"

Delhi == <<"Delhi">>

\* What get_must_visit_places_nearby and fetch_city_news return: mappings.
PlacesOk ==
    VDict(("success" :> VBool(TRUE)) @@ ("places" :> VList(<<Str(<<"Red", "Fort">>)>>)))
PlacesErr ==
    VDict(("success" :> VBool(FALSE)) @@ ("error" :> Str(<<"Could", "not", "geocode", "location">>))
          @@ ("places" :> EmptyList))
NewsOk == VDict("articles" :> VList(<<VDict("title" :> Str(<<"Metro", "opens">>))>>))
NewsErr == VDict("error" :> Str(<<"News", "API", "key", "not", "configured">>))

\* A document of the collection.
Doc(id, loc, type, data, stale) ==
    [id |-> id, location |-> loc, data_type |-> type, data |-> data, stale |-> stale]

\* Payloads POST /unified-data is called with; the last is what the
\* write-back of a places request stores, main.py lines 313-318.
SeedPayloads ==
    { [type |-> "maps", data |-> VDict("places" :> VList(<<Str(<<"Red", "Fort">>), Str(<<"Qutub", "Minar">>)>>))],
      [type |-> "maps", data |-> VDict("places" :> VList(<<Str(<<"No", "places", "found">>)>>))],
      [type |-> "maps", data |-> VDict("places" :> VList(<<VStr(<<" ">>)>>))],
      [type |-> "news", data |-> VDict("articles" :> VList(<<Str(<<"Metro", "opens">>)>>))],
      [type |-> "news", data |-> VDict("articles" :> VList(<<Str(<<"Error", "fetching", "news">>)>>))],
      [type |-> "reddit", data |-> VDict("posts" :> VList(<<Str(<<"Metro", "opens">>)>>))],
      [type |-> "maps", data |-> VDict("places" :> VList(<<PlacesOk>>))] }

\* store_unified_data, lines 720-739: the document is added, unless the
\* store fails, which the function swallows.
store_unified_data(c, id, loc, type, data, ok) ==
    IF ok THEN Append(c, Doc(id, loc, type, data, FALSE)) ELSE c

\* What a reload does: for each source, whether a document was stored and
\* what the live source had returned.
LoadOutcomes ==
    { [news |-> "none", maps |-> "none"],
      [news |-> "ok", maps |-> "ok"],
      [news |-> "err", maps |-> "err"],
      [news |-> "ok", maps |-> "none"] }

Loaded(data, source) == VDict(("data" :> data) @@ ("source" :> VStr(<<source>>)))

\* load_unified_data_to_firestore, lines 462-600
load_unified_data_to_firestore(c, id, loc, lo) ==
    LET c1 == IF lo.news = "none" THEN c
              ELSE store_unified_data(c, id, loc, "news",
                        Loaded(IF lo.news = "ok" THEN NewsOk ELSE NewsErr, "news"), TRUE)
    IN  IF lo.maps = "none" THEN c1
        ELSE store_unified_data(c1, id + 1, loc, "maps",
                        Loaded(IF lo.maps = "ok" THEN PlacesOk ELSE PlacesErr, "maps"), TRUE)

\* lines 620-636: the documents of the location and type younger than the
\* cutoff, most recent first
RecentDocs(c, loc, type) ==
    Reverse(SelectSeq(c, LAMBDA d : d.location = loc /\ ~d.stale /\ d.data_type = type))

\* get_unified_data_from_firestore(location, data_type, 24, force_refresh=False),
\* lines 602-651: the documents returned and the collection afterwards.
\* db is "ok" or "fail" (an exception inside, swallowed at line 649).
get_unified_data_from_firestore(c, id, loc, type, db, lo) ==
    IF db = "fail" THEN [cache |-> c, docs |-> <<>>, loaded |-> FALSE]
    ELSE IF RecentDocs(c, loc, type) # <<>>
         THEN [cache |-> c, docs |-> RecentDocs(c, loc, type), loaded |-> FALSE]
         ELSE LET c1 == load_unified_data_to_firestore(c, id, loc, lo)
              IN  [cache |-> c1, docs |-> RecentDocs(c1, loc, type), loaded |-> TRUE]

\* The indicator lists of main.py lines 269-276 and firestore.py lines 925-932.
ErrorIndicators ==
    { <<"no", " ", "must-visit", " ", "places", " ", "found">>,
      <<"no", " ", "places", " ", "found">>,
      <<"could", " ", "not", " ", "find">>,
      <<"error">>, <<"exception">>, <<"not", " ", "found">>}

AllBlank(l) == \A i \in DOMAIN l : Strip(l[i].v) = <<>>
HasError(l) == \E ind \in ErrorIndicators : Contains(Lower(JoinStr(" ", l)), ind)

\* firestore.py lines 913-951 for one maps document: "raise" when a place
\* is no string, else whether the document is empty or an error.
MapsIsEmpty(d) ==
    LET places == IF "places" \in DOMAIN d.data.v THEN d.data.v["places"] ELSE EmptyList
    IN  IF ~Truthy(places) THEN "empty"
        ELSE IF ~AllStr(places.v) THEN "raise"
        ELSE IF AllBlank(places.v) \/ HasError(places.v) THEN "empty"
        ELSE "keep"

\* The loop of clear_empty_cached_data over the documents in the order the
\* stream yields them: the ids deleted until the loop ends or raises.
RECURSIVE PurgeLoop(_, _, _, _)
PurgeLoop(docs, loc, type, deleted) ==
    IF docs = <<>> THEN deleted
    ELSE LET d == Head(docs)
         IN  IF d.location # loc \/ d.data_type # type
             THEN PurgeLoop(Tail(docs), loc, type, deleted)
             ELSE IF MapsIsEmpty(d) = "raise" THEN deleted
             ELSE IF MapsIsEmpty(d) = "empty"
                  THEN PurgeLoop(Tail(docs), loc, type, deleted \cup {d.id})
                  ELSE PurgeLoop(Tail(docs), loc, type, deleted)

Orders(n) == {f \in [1..n -> 1..n] : \A i, j \in 1..n : f[i] = f[j] => i = j}

\* clear_empty_cached_data(location, "maps"), lines 905-970, the stream
\* yielding the documents in the given order
clear_empty_cached_data(c, loc, type, order) ==
    LET deleted == PurgeLoop([i \in 1..Len(c) |-> c[order[i]]], loc, type, {})
    IN  SelectSeq(c, LAMBDA d : d.id \notin deleted)

(***************************************************************************)
(* chat_router and dispatch_tool, src/apps/orchestrator/main.py lines      *)
(* 122-458: one request, made when other endpoints and earlier requests    *)
(* have left documents in the cache.  A collaborator either raises or      *)
(* returns a value.                                                        *)
(***************************************************************************)
Raise == [raises |-> TRUE, val |-> VNone]
Ret(v) == [raises |-> FALSE, val |-> v]

Exception(name) == [kind |-> "exception", exc |-> name]
ReturnedNone == [kind |-> "none"]
BotResponse(intent, entities, reply) ==
    [kind |-> "record", intent |-> intent, entities |-> entities, reply |-> reply]

Users == {"alice"}

ChatMessages ==
    { <<>>, <<" ">>,
      Spaced(<<"Delhi", "tweets">>),
      Spaced(<<"Delhi", "reddit">>),
      Spaced(<<"Delhi", "news">>),
      Spaced(<<"reports", "in", "Delhi", "on", "traffic">>),
      Spaced(<<"similar", "queries", "for", "user", "bob", "about", "Delhi">>),
      Spaced(<<"search", "for", "Delhi", "on", "google">>),
      Spaced(<<"route", "from", "Delhi", "to", "Mumbai">>),
      Spaced(<<"places", "to", "visit", "in", "Delhi">>),
      Spaced(<<"what", "was", "my", "first", "query">>) }

JNullIntent == VDict(("intent" :> VNone) @@ ("entities" :> EmptyDict))
JEmptyCity == ParsedQuery("get_city_news", "city" :> VStr(<<>>))
JNoLocation == ParsedQuery("get_must_visit_places", "location" :> VStr(<<>>))

\* The cascade of extract_intent on the messages of the chat requests.
ChatCascade == [msg \in ChatMessages |-> Cascade(msg)]

\* What the intent LLM does when chat_router's extract_intent asks it.
ChatLLM ==
    { LLMRaises, LLMText(<<Prose>>), LLMText(<<Obj(JPlaces)>>),
      LLMText(<<Obj(JNoEntities)>>), LLMText(<<Obj(JBadTypes)>>),
      LLMText(<<Obj(JNullIntent)>>), LLMText(<<Obj(JEmptyCity)>>),
      LLMText(<<Obj(JNoLocation)>>) }

\* fetch_twitter_posts, src/tools/twitter.py lines 40-89: the texts it returns
TwRecent == Str(<<"Recent", "tweets", ":", "Metro", "opens">>)
TwNone == Str(<<"No", "recent", "tweets", "found", "for", "Delhi", "about", "general">>)
TwCredentials == Str(<<"Twitter", "API", "credentials", "missing", ":", "TWITTER_BEARER_TOKEN">>)
TwRateLimit == Str(<<"Twitter", "rate", "limit", "reached">>)
TwApiError == Str(<<"Tweepy", "API", "Error", ":", "403">>)
TwitterOutcomes == {Ret(TwRecent), Ret(TwNone), Ret(TwCredentials), Ret(TwRateLimit), Ret(TwApiError), Raise}

\* run_gemini_fallback_agent: an answer, an empty text, or an exception
GeminiAnswer == Str(<<"Here", "is", "an", "answer">>)
GeminiEcho == VStr(<<"ECHO">>)
GeminiOutcomes == {Ret(GeminiAnswer), Ret(GeminiEcho), Ret(VStr(<<>>)), Raise}

\* The text run_gemini_fallback_agent(query) returns: an answer that does
\* not show the query, one that quotes it, or nothing.
GeminiSays(out, query) ==
    IF out.val = GeminiEcho THEN VStr(<<"You", " ", "asked", ":", " ">> \o query) ELSE out.val

RouteOk == VDict(("success" :> VBool(TRUE)) @@ ("summary" :> Str(<<"Best", "route">>)))
RouteErr == VDict(("success" :> VBool(FALSE)) @@ ("error" :> Str(<<"No", "route", "found">>)))

\* entities.get(k, "")
Get(e, k) == IF k \in DOMAIN e THEN e[k] ELSE VStr(<<>>)

\* The branch of dispatch_tool a request takes, lines 127-365.
Branch(intent, e, query) ==
    LET location == Get(e, "location")
        topic == Get(e, "topic")
        q == Lower(query)
    IN  IF intent = Intent("get_twitter_posts") /\ Truthy(location) /\ Truthy(topic) THEN "twitter"
        ELSE IF intent = Intent("get_reddit_posts") /\ "subreddit" \in DOMAIN e THEN "reddit"
        ELSE IF intent = Intent("social_media") /\ "topic" \in DOMAIN e
                /\ Get(e, "source").t = "str" /\ Lower(Get(e, "source").v) = <<"reddit">> THEN "reddit"
        ELSE IF intent = Intent("get_city_news") /\ ("city" \in DOMAIN e \/ Truthy(location)) THEN "news"
        ELSE IF intent = Intent("get_firestore_reports") /\ Truthy(location) /\ Truthy(topic) THEN "reports"
        ELSE IF intent = Intent("get_similar_queries") /\ "user_id" \in DOMAIN e /\ "query" \in DOMAIN e THEN "similar"
        ELSE IF intent = Intent("google_search") /\ "query" \in DOMAIN e THEN "google"
        ELSE IF intent = Intent("get_best_route") /\ "current_location" \in DOMAIN e
                /\ "destination" \in DOMAIN e THEN "route"
        ELSE IF intent \in {Intent("get_must_visit_places"), Intent("poi")} /\ Truthy(location) THEN "maps"
        ELSE IF intent = Intent("history")
                \/ (Contains(q, <<"query">>)
                    /\ (Contains(q, <<"first">>) \/ Contains(q, <<"previous">>) \/ Contains(q, <<"last">>)))
             THEN "history"
        ELSE "none"

\* The key a cacheable branch reads and writes the cache under.
CacheKey(branch, e) ==
    CASE branch = "news" -> (IF "city" \in DOMAIN e THEN e["city"].v ELSE Get(e, "location").v)
      [] branch = "maps" -> Get(e, "location").v
      [] branch = "reddit" ->
            (IF "subreddit" \in DOMAIN e THEN e["subreddit"].v ELSE RemoveSpaces(Get(e, "topic").v))

\* The field of a cached payload a branch builds its reply from.
PayloadField(branch) ==
    CASE branch = "news" -> "articles" [] branch = "maps" -> "places" [] branch = "reddit" -> "posts"

NL == "\n"

\* What the dispatcher makes of the documents a cache read returned:
\* lines 157-165 (news), 261-304 (places), 394-404 (reddit).  "hit" with the
\* reply, "purge", "fetch", or "raise" when an element is no string.
CacheVerdict(branch, key, docs) ==
    LET data == docs[1].data
        f == PayloadField(branch)
        items == data.v[f]
        head == CASE branch = "news" -> Spaced(<<"Latest", "news", "for">>) \o <<" ">> \o key \o <<":">>
                  [] branch = "maps" -> Spaced(<<"Must", "visit", "places", "in">>) \o <<" ">> \o key \o <<":">>
                  [] branch = "reddit" -> Spaced(<<"Latest", "posts", "from">>) \o <<" ", "r/">> \o key \o <<":">>
        hit == [v |-> "hit", reply |-> VStr(head \o <<NL>> \o JoinStr(NL, items.v))]
        other(v) == [v |-> v, reply |-> VNone]
    IN  IF docs = <<>> THEN other("fetch")
        ELSE IF f \notin DOMAIN data.v THEN other("fetch")
        ELSE IF ~Truthy(items) THEN other("fetch")
        ELSE IF ~AllStr(items.v) THEN other("raise")
        ELSE IF branch # "maps" THEN hit
        ELSE IF AllBlank(items.v) THEN other("purge")
        ELSE IF HasError(items.v) THEN other("purge")
        ELSE hit

\* reply.split('\n')[1:] if '\n' in reply else [reply], lines 174, 313, 415
RECURSIVE SplitLines(_, _)
SplitLines(s, cur) ==
    IF s = <<>> THEN <<VStr(cur)>>
    ELSE IF Head(s) = NL THEN <<VStr(cur)>> \o SplitLines(Tail(s), <<>>)
    ELSE SplitLines(Tail(s), Append(cur, Head(s)))

ItemsOf(reply) ==
    IF reply.t = "str" /\ Contains(reply.v, <<NL>>) THEN VList(Tail(SplitLines(reply.v, <<>>)))
    ELSE VList(<<reply>>)

(***************************************************************************)
(* The history collaborator: the user_query_history collection.            *)
(***************************************************************************)
HistoryLimit == 10     \* main.py line 339
SimilarHistory == 50   \* firestore.py line 881
SimilarLimit == 5      \* main.py line 213
RecentShown == 3       \* main.py line 353

Take(s, n) == SubSeq(s, 1, IF Len(s) < n THEN Len(s) ELSE n)

\* get_user_query_history(user_id, limit), firestore.py lines 846-863
get_user_query_history(h, user, limit) ==
    Take(Reverse(SelectSeq(h, LAMBDA r : r.user_id = user)), limit)

\* s.split(): the maximal runs without a blank
RECURSIVE SplitWords(_, _)
SplitWords(s, cur) ==
    IF s = <<>> THEN (IF cur = <<>> THEN {} ELSE {cur})
    ELSE IF Head(s) \in {" ", NL} THEN (IF cur = <<>> THEN {} ELSE {cur}) \cup SplitWords(Tail(s), <<>>)
    ELSE SplitWords(Tail(s), Append(cur, Head(s)))

Quoted(s) == <<"'">> \o s \o <<"'">>

\* fetch_similar_user_queries(user_id, query, limit), firestore.py lines 877-903
fetch_similar_user_queries(h, user, query, limit) ==
    LET hist == get_user_query_history(h, user, SimilarHistory)
        words == SplitWords(Lower(query), <<>>)
        similar == SelectSeq(hist, LAMBDA r : words \cap SplitWords(Lower(r.query), <<>>) # {})
        queries == [i \in DOMAIN similar |-> VStr(similar[i].query)]
    IN  IF queries # <<>>
        THEN VStr(Spaced(<<"Similar", "queries", "to">>) \o <<" ">> \o Quoted(query) \o <<":", NL>>
                  \o JoinStr(NL, Take(queries, limit)))
        ELSE VStr(Spaced(<<"No", "similar", "queries", "found", "for">>) \o <<" ">> \o Quoted(query))

\* The reply of the history branch, main.py lines 341-357.
HistoryReply(hist, query) ==
    LET q == Lower(query)
        line(i) == Quoted(hist[i].query)
        recent == Take(hist, RecentShown)
    IN  IF hist = <<>>
        THEN Str(<<"You", "haven't", "made", "any", "queries", "yet">>)
        ELSE IF Contains(q, <<"first">>)
        THEN VStr(Spaced(<<"Your", "first", "query", "was", ":">>) \o <<" ">> \o Quoted(hist[Len(hist)].query))
        ELSE IF Contains(q, <<"last">>)
        THEN VStr(Spaced(<<"Your", "last", "query", "was", ":">>) \o <<" ">> \o Quoted(hist[1].query))
        ELSE VStr(Spaced(<<"Your", "recent", "queries", ":">>) \o <<NL>>
                  \o JoinStr(NL, [i \in DOMAIN recent |-> VStr(line(i))]) \o <<NL>>)

\* The condition of step 5, main.py lines 437-443, for a str reply.
NeedsFallback(reply) ==
    \/ Strip(reply) = <<>>
    \/ StartsWith(Lower(reply), <<"error", " ", "fetching">>)
    \/ StartsWith(Lower(reply), <<"no", " ", "posts", " ", "found">>)
    \/ Contains(Lower(reply), <<"rate", " ", "limit">>)
    \/ Contains(Lower(reply), <<"not", " ", "yet", " ", "implemented">>)

(***************************************************************************)
(* The steps of a chat request.                                            *)
(***************************************************************************)
Idle == cpc = "idle"

\* An exception leaves chat_router.
Abort(exc) == cpc' = "done" /\ cout' = Exception(exc)

\* POST /chat is received, main.py lines 367-369.
ChatReceive(u, msg) ==
    /\ Idle
    /\ cpc' = "extract"
    /\ creq' = [user_id |-> u, message |-> msg]
    /\ UNCHANGED <<cintent, centities, cbranch, csuccess, creply, crejected, cstored, cout>>
    /\ UNCHANGED storeVars
    /\ ChatFrame

\* A step 1 that attaches the caller's user_id only when the extractor
\* produced none (entities.setdefault).
ChatExtractKeepsNamed(o) ==
    /\ cpc = "extract"
    /\ LET d == ExtractIntent(ChatCascade[creq.message], o)
       IN  IF "intent" \notin DOMAIN d.v
           THEN Abort("KeyError") /\ UNCHANGED <<cintent, centities>>
           ELSE IF "entities" \notin DOMAIN d.v
           THEN Abort("KeyError") /\ cintent' = d.v["intent"] /\ UNCHANGED centities
           ELSE IF d.v["entities"].t # "dict"
           THEN Abort("TypeError") /\ cintent' = d.v["intent"] /\ centities' = d.v["entities"]
           ELSE /\ cintent' = d.v["intent"]
                /\ centities' = VDict(d.v["entities"].v @@ ("user_id" :> VStr(<<creq.user_id>>)))
                /\ cpc' = "dispatch"
                /\ UNCHANGED cout
    /\ UNCHANGED <<creq, cbranch, csuccess, creply, crejected, cstored>>
    /\ UNCHANGED storeVars
    /\ ChatFrame

\* Step 1, lines 371-377: extract_intent, then the intent and the entities
\* are taken out of its result and the caller's user_id is attached.
ChatExtract(o) ==
    /\ cpc = "extract"
    /\ LET d == ExtractIntent(ChatCascade[creq.message], o)
       IN  IF "intent" \notin DOMAIN d.v
           THEN Abort("KeyError") /\ UNCHANGED <<cintent, centities>>
           ELSE IF "entities" \notin DOMAIN d.v
           THEN Abort("KeyError") /\ cintent' = d.v["intent"] /\ UNCHANGED centities
           ELSE IF d.v["entities"].t # "dict"
           THEN Abort("TypeError") /\ cintent' = d.v["intent"] /\ centities' = d.v["entities"]
           ELSE /\ cintent' = d.v["intent"]
                /\ centities' = VDict(("user_id" :> VStr(<<creq.user_id>>)) @@ d.v["entities"].v)
                /\ cpc' = "dispatch"
                /\ UNCHANGED cout
    /\ UNCHANGED <<creq, cbranch, csuccess, creply, crejected, cstored>>
    /\ UNCHANGED storeVars
    /\ ChatFrame

\* A dispatch whose failure skips step 4 and goes to the test of the reply.
ChatDispatchNoFallback ==
    /\ cpc = "dispatch"
    /\ LET b == Branch(cintent, centities.v, creq.message)
       IN  /\ cbranch' = b
           /\ CASE b \in {"news", "maps"} -> cpc' = "read" /\ UNCHANGED <<csuccess, creply>>
                [] b = "reddit" ->
                        cpc' = "read" /\ csuccess' = TRUE /\ creply' = VStr(<<"REDDIT_ASYNC_CALL">>)
                [] b = "none" -> cpc' = "catchall" /\ csuccess' = FALSE /\ creply' = VStr(<<>>)
                [] OTHER -> cpc' = "tool" /\ UNCHANGED <<csuccess, creply>>
    /\ UNCHANGED <<creq, cintent, centities, crejected, cstored, cout>>
    /\ UNCHANGED storeVars
    /\ ChatFrame

\* Step 2, lines 127-146 and 363-365: dispatch_tool selects its branch.
ChatDispatch ==
    /\ cpc = "dispatch"
    /\ LET b == Branch(cintent, centities.v, creq.message)
       IN  /\ cbranch' = b
           /\ CASE b \in {"news", "maps"} -> cpc' = "read" /\ UNCHANGED <<csuccess, creply>>
                [] b = "reddit" ->
                        cpc' = "read" /\ csuccess' = TRUE /\ creply' = VStr(<<"REDDIT_ASYNC_CALL">>)
                [] b = "none" -> cpc' = "router" /\ csuccess' = FALSE /\ creply' = VStr(<<>>)
                [] OTHER -> cpc' = "tool" /\ UNCHANGED <<csuccess, creply>>
    /\ UNCHANGED <<creq, cintent, centities, crejected, cstored, cout>>
    /\ UNCHANGED storeVars
    /\ ChatFrame

\* The cache read of a cacheable branch and what the dispatcher makes of
\* it: lines 150-165 (news), 254-304 (places), 387-406 (reddit).
CacheRead(db, lo) ==
    /\ cpc = "read"
    /\ LET key == CacheKey(cbranch, centities.v)
           onRaise == IF cbranch = "reddit" THEN "fetch" ELSE "fetch2"
       IN  IF db = "raise"
           THEN /\ cpc' = onRaise
                /\ UNCHANGED <<cache, cacheNext, csuccess, creply, crejected, cstored, cout>>
           ELSE LET r == get_unified_data_from_firestore(cache, cacheNext, key, cbranch, db, lo)
                    v == CacheVerdict(cbranch, key, r.docs)
                IN  /\ cache' = r.cache
                    /\ cacheNext' = IF r.loaded THEN cacheNext + 2 ELSE cacheNext
                    /\ CASE v.v = "hit" /\ cbranch = "reddit" ->
                                /\ creply' = v.reply
                                /\ csuccess' = TRUE
                                /\ cpc' = "done"
                                /\ cout' = ReturnedNone
                                /\ UNCHANGED crejected
                         [] v.v = "hit" /\ cbranch # "reddit" ->
                                /\ creply' = v.reply
                                /\ csuccess' = TRUE
                                /\ cpc' = "catchall"
                                /\ UNCHANGED <<crejected, cout>>
                         [] v.v = "purge" ->
                                /\ crejected' = r.docs[1].id
                                /\ cpc' = "purge"
                                /\ UNCHANGED <<csuccess, creply, cout>>
                         [] v.v = "fetch" ->
                                /\ cpc' = "fetch"
                                /\ UNCHANGED <<csuccess, creply, crejected, cstored, cout>>
                         [] v.v = "raise" ->
                                /\ cpc' = onRaise
                                /\ UNCHANGED <<csuccess, creply, crejected, cstored, cout>>
    /\ UNCHANGED <<creq, cintent, centities, cbranch, cstored, seeded, history>>
    /\ ChatFrame

\* Lines 286-300: clear_empty_cached_data is called; whatever it raises is
\* swallowed.  The stream yields the documents in some order.
CachePurge(out) ==
    /\ cpc = "purge"
    /\ \E order \in Orders(Len(cache)) :
          cache' = IF out = "ok"
                   THEN clear_empty_cached_data(cache, CacheKey(cbranch, centities.v), cbranch, order)
                   ELSE cache
    /\ cpc' = "fetch"
    /\ UNCHANGED <<creq, cintent, centities, cbranch, csuccess, creply, crejected, cstored, cout>>
    /\ UNCHANGED <<cacheNext, seeded, history>>
    /\ ChatFrame

LiveOutcomes(branch) ==
    CASE branch = "news" -> {Ret(NewsOk), Ret(NewsErr), Raise}
      [] branch = "maps" -> {Ret(PlacesOk), Ret(PlacesErr), Raise}
      [] branch = "reddit" -> {Ret(VDict("posts" :> EmptyList)), Raise}

\* The live call of a cacheable branch: lines 169, 308 and 410.  The reddit
\* tool is no coroutine: what it returns cannot be awaited.
LiveFetch(out) ==
    /\ cpc = "fetch"
    /\ out \in LiveOutcomes(cbranch)
    /\ IF cbranch = "reddit"
       THEN Abort(IF out.raises THEN "ToolError" ELSE "TypeError") /\ UNCHANGED creply
       ELSE IF out.raises
       THEN cpc' = "fetch2" /\ UNCHANGED <<creply, cout>>
       ELSE cpc' = "store" /\ creply' = out.val /\ UNCHANGED cout
    /\ UNCHANGED <<creq, cintent, centities, cbranch, csuccess, crejected, cstored>>
    /\ UNCHANGED storeVars
    /\ ChatFrame

\* The write-back of a live result, lines 172-185 and 311-323; a failure is
\* swallowed.
WriteBack(st) ==
    /\ cpc = "store"
    /\ cache' = store_unified_data(cache, cacheNext, CacheKey(cbranch, centities.v), cbranch,
                    VDict(PayloadField(cbranch) :> ItemsOf(creply)), st = "ok")
    /\ cacheNext' = IF st = "ok" THEN cacheNext + 1 ELSE cacheNext
    /\ csuccess' = TRUE
    /\ cpc' = "catchall"
    /\ UNCHANGED <<creq, cintent, centities, cbranch, creply, crejected, cstored, cout>>
    /\ UNCHANGED <<seeded, history>>
    /\ ChatFrame

\* The direct call of the outer handlers, lines 187-192 and 325-329.
LiveFetchAgain(out) ==
    /\ cpc = "fetch2"
    /\ out \in LiveOutcomes(cbranch)
    /\ IF out.raises
       THEN Abort("ToolError") /\ UNCHANGED <<csuccess, creply>>
       ELSE cpc' = "catchall" /\ csuccess' = TRUE /\ creply' = out.val /\ UNCHANGED cout
    /\ UNCHANGED <<creq, cintent, centities, cbranch, crejected, cstored>>
    /\ UNCHANGED storeVars
    /\ ChatFrame

\* A direct tool call returned: dispatch_tool returns (True, reply).
ToolReturns(reply) ==
    cpc' = "catchall" /\ csuccess' = TRUE /\ creply' = reply /\ UNCHANGED cout

\* A direct tool call raised inside its handler: (False, "Error ...: e").
ToolFails(words) ==
    /\ cpc' = "router"
    /\ csuccess' = FALSE
    /\ creply' = VStr(Spaced(words) \o <<":", " ", "boom">>)
    /\ UNCHANGED cout

ToolFrame ==
    /\ UNCHANGED <<creq, cintent, centities, cbranch, crejected, cstored>>
    /\ UNCHANGED storeVars
    /\ ChatFrame

\* Lines 130-134: fetch_twitter_posts, called outside any handler.
CallTwitter(out) ==
    /\ cpc = "tool"
    /\ cbranch = "twitter"
    /\ IF out.raises
       THEN Abort("ToolError") /\ UNCHANGED <<csuccess, creply>>
       ELSE ToolReturns(out.val)
    /\ ToolFrame

\* Lines 194-204: fetch_firestore_reports, firestore.py lines 866-875.
CallReports(out) ==
    /\ cpc = "tool"
    /\ cbranch = "reports"
    /\ CASE out = "ok" ->
                ToolReturns(VStr(Spaced(<<"Reports", "for">>) \o <<" ">> \o Get(centities.v, "topic").v
                                 \o <<" ", "in", " ">> \o Get(centities.v, "location").v \o <<":", " ">>
                                 \o Spaced(<<"No", "reports", "found", "in", "database">>)))
         [] out = "error" -> ToolReturns(VStr(Spaced(<<"Error", "fetching", "reports">>) \o <<":", " ", "boom">>))
         [] out = "raise" -> ToolFails(<<"Error", "fetching", "Firestore", "reports">>)
    /\ ToolFrame

\* Lines 206-218: fetch_similar_user_queries for entities["user_id"].
CallSimilar(out) ==
    /\ cpc = "tool"
    /\ cbranch = "similar"
    /\ CASE out = "ok" ->
                ToolReturns(fetch_similar_user_queries(history, centities.v["user_id"].v[1],
                                centities.v["query"].v, SimilarLimit))
         [] out = "error" ->
                ToolReturns(VStr(Spaced(<<"Error", "fetching", "similar", "queries">>) \o <<":", " ", "boom">>))
         [] out = "raise" -> ToolFails(<<"Error", "fetching", "similar", "queries">>)
    /\ ToolFrame

GoogleResults ==
    VList(<<VDict(("title" :> Str(<<"Delhi", "guide">>)) @@ ("snippet" :> Str(<<"Red", "Fort">>)))>>)

\* Lines 220-235: google_search, which returns a list, empty on an error.
CallGoogle(out) ==
    /\ cpc = "tool"
    /\ cbranch = "google"
    /\ out \in {Ret(GoogleResults), Ret(EmptyList), Raise}
    /\ LET q == Quoted(centities.v["query"].v)
           line(r) == <<"-", " ">> \o r.v["title"].v \o <<":", " ">> \o r.v["snippet"].v
       IN  IF out.raises THEN ToolFails(<<"Error", "performing", "Google", "search">>)
           ELSE IF Truthy(out.val)
           THEN ToolReturns(VStr(Spaced(<<"Google", "search", "results", "for">>) \o <<" ">> \o q
                                 \o <<":", NL>>
                                 \o JoinStr(NL, [i \in DOMAIN out.val.v |-> VStr(line(out.val.v[i]))])))
           ELSE ToolReturns(VStr(Spaced(<<"No", "results", "found", "for">>) \o <<" ">> \o q))
    /\ ToolFrame

\* Lines 237-250: get_best_route, which returns a mapping.
CallRoute(out) ==
    /\ cpc = "tool"
    /\ cbranch = "route"
    /\ out \in {Ret(RouteOk), Ret(RouteErr), Raise}
    /\ IF out.raises THEN ToolFails(<<"Error", "getting", "route">>) ELSE ToolReturns(out.val)
    /\ ToolFrame

\* Lines 331-361: the query history of entities["user_id"].
CallHistory(out) ==
    /\ cpc = "tool"
    /\ cbranch = "history"
    /\ CASE out = "ok" ->
                ToolReturns(HistoryReply(
                    get_user_query_history(history, centities.v["user_id"].v[1], HistoryLimit),
                    creq.message))
         [] out = "error" -> ToolReturns(HistoryReply(<<>>, creq.message))
         [] out = "raise" ->
                ToolReturns(Str(<<"I'm", "having", "trouble", "accessing", "your", "query", "history">>))
    /\ ToolFrame

\* Step 4, lines 429-434, and agent_router lines 50-51: the generic router
\* with no tool name asks the fallback LLM.
CallRouter(out) ==
    /\ cpc = "router"
    /\ IF out.raises
       THEN cpc' = "router2" /\ UNCHANGED creply
       ELSE cpc' = "catchall" /\ creply' = GeminiSays(out, creq.message)
    /\ UNCHANGED <<creq, cintent, centities, cbranch, csuccess, crejected, cstored, cout>>
    /\ UNCHANGED storeVars
    /\ ChatFrame

\* agent_router lines 52-56: its handler asks the fallback LLM once more.
RouterFallback(out) ==
    /\ cpc = "router2"
    /\ IF out.raises
       THEN Abort("LLMError") /\ UNCHANGED creply
       ELSE /\ cpc' = "catchall"
            /\ creply' = VStr(<<"[Fallback: Gemini]", " ">> \o GeminiSays(out, creq.message).v)
            /\ UNCHANGED cout
    /\ UNCHANGED <<creq, cintent, centities, cbranch, csuccess, crejected, cstored>>
    /\ UNCHANGED storeVars
    /\ ChatFrame

\* Step 5, lines 437-443: the test of the reply.
CatchAll ==
    /\ cpc = "catchall"
    /\ IF creply.t # "str" THEN Abort("AttributeError")
       ELSE IF NeedsFallback(creply.v) THEN cpc' = "fallback" /\ UNCHANGED cout
       ELSE cpc' = "history" /\ UNCHANGED cout
    /\ UNCHANGED <<creq, cintent, centities, cbranch, csuccess, creply, crejected, cstored>>
    /\ UNCHANGED storeVars
    /\ ChatFrame

\* Step 5, lines 444-445: the fallback LLM answers the message.
CallFallback(out) ==
    /\ cpc = "fallback"
    /\ IF out.raises
       THEN Abort("LLMError") /\ UNCHANGED creply
       ELSE cpc' = "history" /\ creply' = GeminiSays(out, creq.message) /\ UNCHANGED cout
    /\ UNCHANGED <<creq, cintent, centities, cbranch, csuccess, crejected, cstored>>
    /\ UNCHANGED storeVars
    /\ ChatFrame

\* What the collection keeps of a document for the reads of this program,
\* which look at user_id and query only.
HistoryEntry(req) == [user_id |-> req.user_id, query |-> req.message]

\* The document store_user_query_history is called with.
HistoryRecord(req, intent, entities, reply) ==
    [user_id |-> req.user_id, query |-> req.message,
     location |-> IF "location" \in DOMAIN entities.v THEN entities.v["location"] ELSE VNone,
     response_data |-> [intent |-> intent, entities |-> entities, reply |-> reply]]

\* A step 6 without its handlers: a failing store leaves chat_router.
StoreHistoryPropagates(st) ==
    /\ cpc = "history"
    /\ history' = IF st = "ok" THEN Append(history, HistoryEntry(creq)) ELSE history
    /\ cstored' = [doc |-> HistoryRecord(creq, cintent, centities, creply), st |-> st]
    /\ IF st = "ok" THEN cpc' = "return" /\ UNCHANGED cout ELSE Abort("FirestoreError")
    /\ UNCHANGED <<creq, cintent, centities, cbranch, csuccess, creply, crejected>>
    /\ UNCHANGED <<cache, cacheNext, seeded>>
    /\ ChatFrame

\* Step 6, lines 448-456, and store_user_query_history, firestore.py lines
\* 821-844: the record is added unless the store fails; an exception is
\* caught in either function and the step goes on to the return.
StoreHistory(st) ==
    /\ cpc = "history"
    /\ history' = IF st = "ok" THEN Append(history, HistoryEntry(creq)) ELSE history
    /\ cstored' = [doc |-> HistoryRecord(creq, cintent, centities, creply), st |-> st]
    /\ cpc' = "return"
    /\ UNCHANGED <<creq, cintent, centities, cbranch, csuccess, creply, crejected, cout>>
    /\ UNCHANGED <<cache, cacheNext, seeded>>
    /\ ChatFrame

\* Line 458: the BotResponse is built, lines 74-77, and returned.
ChatReturn ==
    /\ cpc = "return"
    /\ cpc' = "done"
    /\ cout' = IF cintent.t = "str" /\ centities.t = "dict" /\ creply.t = "str"
               THEN BotResponse(cintent, centities, creply)
               ELSE Exception("ValidationError")
    /\ UNCHANGED <<creq, cintent, centities, cbranch, csuccess, creply, crejected, cstored>>
    /\ UNCHANGED storeVars
    /\ ChatFrame

\* POST /unified-data, lines 560-575: a document is added for a location.
PostUnifiedData(seed) ==
    /\ Idle
    /\ seeded < MaxCache
    /\ seeded' = seeded + 1
    /\ cache' = store_unified_data(cache, cacheNext, Delhi, seed.type, seed.data, TRUE)
    /\ cacheNext' = cacheNext + 1
    /\ UNCHANGED history
    /\ UNCHANGED chatVars
    /\ ChatFrame

\* A day passes: every document is older than the cutoff of a read.
TimePasses ==
    /\ Idle
    /\ \E i \in DOMAIN cache : ~cache[i].stale
    /\ cache' = [i \in DOMAIN cache |-> [cache[i] EXCEPT !.stale = TRUE]]
    /\ UNCHANGED <<cacheNext, seeded, history>>
    /\ UNCHANGED chatVars
    /\ ChatFrame

Outcomes == {"ok", "error", "raise"}

ChatNext ==
    \/ \E u \in Users, msg \in ChatMessages : ChatReceive(u, msg)
    \/ \E o \in ChatLLM : ChatExtract(o)
    \/ ChatDispatch
    \/ \E db \in {"ok", "fail", "raise"}, lo \in LoadOutcomes : CacheRead(db, lo)
    \/ \E out \in {"ok", "raise"} : CachePurge(out)
    \/ \E out \in {Ret(NewsOk), Ret(NewsErr), Ret(PlacesOk), Ret(PlacesErr),
                   Ret(VDict("posts" :> EmptyList)), Raise} : LiveFetch(out)
    \/ \E st \in Outcomes : WriteBack(st)
    \/ \E out \in {Ret(NewsOk), Ret(NewsErr), Ret(PlacesOk), Ret(PlacesErr), Raise} : LiveFetchAgain(out)
    \/ \E out \in TwitterOutcomes : CallTwitter(out)
    \/ \E out \in Outcomes : CallReports(out)
    \/ \E out \in Outcomes : CallSimilar(out)
    \/ \E out \in {Ret(GoogleResults), Ret(EmptyList), Raise} : CallGoogle(out)
    \/ \E out \in {Ret(RouteOk), Ret(RouteErr), Raise} : CallRoute(out)
    \/ \E out \in Outcomes : CallHistory(out)
    \/ \E out \in GeminiOutcomes : CallRouter(out)
    \/ \E out \in GeminiOutcomes : RouterFallback(out)
    \/ CatchAll
    \/ \E out \in GeminiOutcomes : CallFallback(out)
    \/ \E st \in Outcomes : StoreHistory(st)
    \/ ChatReturn
    \/ \E seed \in SeedPayloads : PostUnifiedData(seed)
    \/ TimePasses

(***************************************************************************)
(* Concurrent chat requests and the user_query_history collection.  Each   *)
(* request is a call of chat_router; of its steps those are kept that      *)
(* reach the collection: the history handler of dispatch_tool reads it and *)
(* step 6 adds to it.  Steps of different calls interleave freely.         *)
(***************************************************************************)
MaxCalls == 2          \* requests, and cache writers, in flight

Calls == 1..MaxCalls
ConcUsers == {"alice", "bob"}
ConcQueries ==
    {Spaced(<<"Delhi", "news">>), Spaced(<<"Delhi", "reddit">>),
     Spaced(<<"what", "was", "my", "last", "query">>)}

\* Where steps 2 to 5 can lead for a query: 'Delhi news' and 'Delhi reddit'
\* are a news and a reddit request by the cascade; the third query is
\* given its intent by the LLM and, as long as no earlier branch applies,
\* is a question about the history.
HPaths(q) ==
    CASE q = Spaced(<<"Delhi", "news">>) -> {"reply", "raise"}
      [] q = Spaced(<<"Delhi", "reddit">>) -> {"cached_reddit", "reply", "raise"}
      [] OTHER -> {"history", "reply", "cached_reddit", "raise"}

IdleCall == [pc |-> "idle", user |-> "", query |-> <<>>, seen |-> 0, out |-> "", added |-> FALSE]

\* A document written under the user's id replaces the user's record.
collection_set(h, doc) == Append(SelectSeq(h, LAMBDA d : d.user_id # doc.user_id), doc)

\* db.collection(USER_HISTORY_COLLECTION).add(doc), firestore.py line 833:
\* a new document under a fresh id.
collection_add(h, doc) == Append(h, doc)

\* main.py lines 367-377: a request arrives and its intent is extracted.
HBegin(c, u, q) ==
    /\ hcalls[c].pc = "idle"
    /\ hcalls' = [hcalls EXCEPT ![c] = [@ EXCEPT !.pc = "dispatch", !.user = u, !.query = q]]
    /\ UNCHANGED history
    /\ HistFrame

\* Steps 2 to 5 of a call, lines 380-445, by where they lead: to the
\* history handler, to a reply of another handler or of the router, to the
\* bare return of the cached reddit posts (line 404), or to an exception.
HDispatch(c, path) ==
    /\ hcalls[c].pc = "dispatch"
    /\ path \in HPaths(hcalls[c].query)
    /\ hcalls' = [hcalls EXCEPT ![c] =
            CASE path = "history" -> [@ EXCEPT !.pc = "read"]
              [] path = "reply" -> [@ EXCEPT !.pc = "reply"]
              [] path = "cached_reddit" -> [@ EXCEPT !.pc = "done", !.out = "none"]
              [] path = "raise" -> [@ EXCEPT !.pc = "done", !.out = "exception"]]
    /\ UNCHANGED history
    /\ HistFrame

\* The history handler, main.py lines 331-361: get_user_query_history.
HReadHistory(c, st) ==
    /\ hcalls[c].pc = "read"
    /\ hcalls' = [hcalls EXCEPT ![c] =
            [@ EXCEPT !.pc = "reply",
                      !.seen = IF st = "ok"
                               THEN Len(get_user_query_history(history, hcalls[c].user, HistoryLimit))
                               ELSE 0]]
    /\ UNCHANGED history
    /\ HistFrame

\* Step 6, main.py lines 447-456 and firestore.py lines 821-844.
HStore(c, st) ==
    /\ hcalls[c].pc = "reply"
    /\ history' = IF st = "ok"
                  THEN collection_add(history,
                          HistoryEntry([user_id |-> hcalls[c].user, message |-> hcalls[c].query]))
                  ELSE history
    /\ hcalls' = [hcalls EXCEPT ![c] = [@ EXCEPT !.pc = "return", !.added = (st = "ok")]]
    /\ HistFrame

\* main.py line 458
HReturn(c) ==
    /\ hcalls[c].pc = "return"
    /\ hcalls' = [hcalls EXCEPT ![c] = [@ EXCEPT !.pc = "done", !.out = "record"]]
    /\ UNCHANGED history
    /\ HistFrame

HistoryNext ==
    \/ \E c \in Calls, u \in ConcUsers, q \in ConcQueries : HBegin(c, u, q)
    \/ \E c \in Calls, path \in {"history", "reply", "cached_reddit", "raise"} : HDispatch(c, path)
    \/ \E c \in Calls, st \in {"ok", "error"} : HReadHistory(c, st)
    \/ \E c \in Calls, st \in Outcomes : HStore(c, st)
    \/ \E c \in Calls : HReturn(c)

(***************************************************************************)
(* Concurrent writers and readers of the unified_data collection, for one  *)
(* location.  store_unified_data reads the clock for the timestamp of its  *)
(* document and then adds the document; other writers and readers run in   *)
(* between.  The clock counts days.                                        *)
(***************************************************************************)
MaxClock == 2          \* the clock stops here
CacheTTL == 1          \* hours = 24 of the reads, in days

WritePayloads ==
    { [type |-> "news", data |-> VDict("articles" :> VList(<<Str(<<"Metro", "opens">>)>>))],
      [type |-> "news", data |-> VDict("articles" :> VList(<<Str(<<"Rain", "today">>)>>))] }

IdleWriter == [pc |-> "idle", type |-> "", data |-> VNone, ts |-> 0]

\* A document with its timestamp; by is the id the add gave it.
Stamped(type, data, ts, by) == [data_type |-> type, data |-> data, ts |-> ts, by |-> by]

\* firestore.py lines 619-632: the documents of a type not older than the cutoff
FreshDocs(coll, type, at) == {d \in coll : d.data_type = type /\ d.ts >= at - CacheTTL}

\* A read that takes the first document the stream yields.
FirstUnsorted(coll, type, at) == FreshDocs(coll, type, at)

\* firestore.py line 636: the sort by timestamp, most recent first.  The
\* sort is stable and the stream yields the documents in the order of
\* their ids, so any document with the greatest timestamp can be first.
FirstSorted(coll, type, at) ==
    {d \in FreshDocs(coll, type, at) : \A e \in FreshDocs(coll, type, at) : e.ts <= d.ts}

\* The reloads of this collection: the live tools return nothing, or both
\* return a result.
ReloadOutcomes == {lo \in LoadOutcomes : lo.news = lo.maps /\ lo.news # "err"}

\* What a reload adds, firestore.py lines 530-559, each document stamped
\* by store_unified_data when it is stored.
Reloaded(lo, at) ==
    (IF lo.news = "none" THEN {}
     ELSE {Stamped("news", Loaded(IF lo.news = "ok" THEN NewsOk ELSE NewsErr, "news"), at, 0)})
    \cup
    (IF lo.maps = "none" THEN {}
     ELSE {Stamped("maps", Loaded(IF lo.maps = "ok" THEN PlacesOk ELSE PlacesErr, "maps"), at, 0)})

\* store_unified_data is entered and builds its document, firestore.py
\* lines 724-731: the timestamp is the clock's value now.
WStamp(c, p) ==
    /\ wcalls[c].pc = "idle"
    /\ wcalls' = [wcalls EXCEPT ![c] = [pc |-> "add", type |-> p.type, data |-> p.data, ts |-> now]]
    /\ UNCHANGED <<now, shared, seen, lastAdd>>
    /\ WriteFrame

\* firestore.py line 733: the document is added, or the add fails and the
\* failure is swallowed (lines 737-739).
WAdd(c, st) ==
    /\ wcalls[c].pc = "add"
    /\ wcalls' = [wcalls EXCEPT ![c] = [IdleWriter EXCEPT !.pc = "done"]]
    /\ LET d == Stamped(wcalls[c].type, wcalls[c].data, wcalls[c].ts, c)
       IN  IF st = "ok"
           THEN /\ shared' = shared \cup {d}
                /\ lastAdd' = [lastAdd EXCEPT ![d.data_type] = d]
                /\ seen' = NoResult
           ELSE UNCHANGED <<shared, lastAdd, seen>>
    /\ UNCHANGED now
    /\ WriteFrame

\* get_unified_data_from_firestore(location, type, 24), firestore.py lines
\* 602-651: the first document of the result, after a reload when no
\* document of the type is recent.
WRead(type, lo) ==
    /\ LET found == FirstSorted(shared, type, now)
           coll == IF found = {} THEN shared \cup Reloaded(lo, now) ELSE shared
           first == FirstSorted(coll, type, now)
       IN  /\ shared' = coll
           /\ lastAdd' = [t \in DOMAIN lastAdd |->
                            IF found = {} /\ \E d \in Reloaded(lo, now) : d.data_type = t
                            THEN CHOOSE d \in Reloaded(lo, now) : d.data_type = t
                            ELSE lastAdd[t]]
           /\ IF first = {} THEN seen' = [type |-> type, at |-> now, doc |-> NoResult]
              ELSE \E d \in first : seen' = [type |-> type, at |-> now, doc |-> d]
    /\ UNCHANGED <<wcalls, now>>
    /\ WriteFrame

\* Time passes.
Tick ==
    /\ now < MaxClock
    /\ now' = now + 1
    /\ UNCHANGED <<wcalls, shared, seen, lastAdd>>
    /\ WriteFrame

WritesNext ==
    \/ \E c \in Calls, p \in WritePayloads : WStamp(c, p)
    \/ \E c \in Calls, st \in {"ok", "error"} : WAdd(c, st)
    \/ \E type \in {"news", "maps"}, lo \in ReloadOutcomes : WRead(type, lo)
    \/ Tick

(***************************************************************************)
(* A question about the query history, asked after earlier turns stored    *)
(* their records: the history branch of dispatch_tool, main.py lines       *)
(* 331-361, with get_user_query_history(user_id, limit=10).                *)
(***************************************************************************)
MaxHistory == 11       \* records stored before the question

RecallQueries == {Spaced(<<"Delhi", "news">>), Spaced(<<"Delhi", "tweets">>)}
RecallAsks ==
    {Spaced(<<"what", "was", "my", "first", "query">>),
     Spaced(<<"what", "was", "my", "last", "query">>),
     Spaced(<<"show", "my", "previous", "query">>)}

\* An earlier turn of alice ends: step 6 adds its record, firestore.py
\* line 833.
RecallStored(q) ==
    /\ rask = NoResult
    /\ Len(history) < MaxHistory
    /\ history' = collection_add(history, HistoryEntry([user_id |-> "alice", message |-> q]))
    /\ UNCHANGED <<rask, rreply>>
    /\ RecallFrame

\* The history handler answers a question of user u: the read returns the
\* records, or fails inside get_user_query_history and returns [] (lines
\* 861-863), or the handler itself fails (lines 359-361).
RecallAsk(u, msg, st) ==
    /\ rask = NoResult
    /\ rask' = [user |-> u, message |-> msg, st |-> st]
    /\ rreply' =
          CASE st = "ok" ->
                  HistoryReply(get_user_query_history(history, u, HistoryLimit), msg)
            [] st = "error" -> HistoryReply(<<>>, msg)
            [] st = "raise" ->
                  Str(<<"I'm", "having", "trouble", "accessing", "your", "query", "history">>)
    /\ UNCHANGED history
    /\ RecallFrame

RecallNext ==
    \/ \E q \in RecallQueries : RecallStored(q)
    \/ \E u \in ConcUsers, msg \in RecallAsks, st \in {"ok", "error", "raise"} : RecallAsk(u, msg, st)

(***************************************************************************)
(* The reads of the cache that reload it: a call of                        *)
(* get_unified_data_from_firestore or of                                   *)
(* get_aggregated_location_data_from_firestore, with the calls they make   *)
(* to themselves and to load_unified_data_to_firestore.  The interpreter   *)
(* ends a recursion deeper than MaxDepth with RecursionError.              *)
(***************************************************************************)
MaxDepth == 3          \* nested calls the interpreter allows

\* What a reload does: it stores a document of the requested type, or it
\* stores none (the live sources return nothing or fail, or the store
\* fails), both with success True; or it fails as a whole.
ReloadResults == {"stored", "nothing", "fail"}

\* get_unified_data_from_firestore returns, firestore.py lines 646 and
\* 648-650: to the caller, or into line 659 of
\* get_aggregated_location_data_from_firestore.
UnifiedReturns(nonempty) ==
    IF gcall.fn = "unified"
    THEN gpc' = "done" /\ gout' = [kind |-> "list", nonempty |-> nonempty]
    ELSE IF nonempty
    THEN gpc' = "done" /\ gout' = [kind |-> "mapping", success |-> TRUE]
    ELSE gpc' = "aggload" /\ gout' = gout

\* One of the two functions is called; the aggregated read starts with its
\* call of get_unified_data_from_firestore(location, "aggregated", hours).
GCall(fn, force, fresh) ==
    /\ gpc = "idle"
    /\ force => fn = "unified"
    /\ gcall' = [fn |-> fn, force |-> force]
    /\ gfresh' = fresh
    /\ gpc' = IF force THEN "refresh" ELSE "read"
    /\ UNCHANGED <<gdepth, glevel, gloads, gout>>
    /\ ReloadFrame

\* firestore.py lines 615-617: force_refresh loads before it reads.
GRefresh(lo) ==
    /\ gpc = "refresh"
    /\ gloads' = gloads + 1
    /\ gfresh' = (gfresh \/ lo = "stored")
    /\ gpc' = "read"
    /\ UNCHANGED <<gcall, gdepth, glevel, gout>>
    /\ ReloadFrame

\* Lines 619-640: the documents are read and filtered; with none left, no
\* force_refresh and _recursion_depth 0 the function goes on to reload.  A
\* failing read returns [] (lines 648-650).
GRead(db) ==
    /\ gpc = "read"
    /\ IF db = "ok" /\ gfresh THEN UnifiedReturns(TRUE)
       ELSE IF db = "ok" /\ ~gcall.force /\ gdepth = 0 THEN gpc' = "reload" /\ gout' = gout
       ELSE UnifiedReturns(FALSE)
    /\ UNCHANGED <<gcall, gfresh, gdepth, glevel, gloads>>
    /\ ReloadFrame

\* Lines 641-644: the reload, and on success the call of itself with
\* _recursion_depth + 1.
GReload(lo) ==
    /\ gpc = "reload"
    /\ gloads' = gloads + 1
    /\ gfresh' = (gfresh \/ lo = "stored")
    /\ IF lo # "fail"
       THEN /\ gdepth' = gdepth + 1
            /\ glevel' = [glevel EXCEPT !.unified = @ + 1]
            /\ gpc' = "read"
            /\ gout' = gout
       ELSE /\ UnifiedReturns(FALSE)
            /\ UNCHANGED <<gdepth, glevel>>
    /\ UNCHANGED gcall
    /\ ReloadFrame

\* Lines 672-682 of get_aggregated_location_data_from_firestore: no
\* aggregated data came back, so the function reloads and on success calls
\* itself, which starts a new get_unified_data_from_firestore.
GAggLoad(lo) ==
    /\ gpc = "aggload"
    /\ gloads' = gloads + 1
    /\ gfresh' = (gfresh \/ lo = "stored")
    /\ IF lo = "fail"
       THEN /\ gpc' = "done"
            /\ gout' = [kind |-> "mapping", success |-> FALSE]
            /\ UNCHANGED <<gdepth, glevel>>
       ELSE IF glevel.aggregated < MaxDepth
       THEN /\ glevel' = [unified |-> 0, aggregated |-> glevel.aggregated + 1]
            /\ gdepth' = 0
            /\ gpc' = "read"
            /\ gout' = gout
       ELSE /\ gpc' = "done"          \* RecursionError, caught at lines 684-690
            /\ gout' = [kind |-> "mapping", success |-> FALSE]
            /\ UNCHANGED <<gdepth, glevel>>
    /\ UNCHANGED gcall
    /\ ReloadFrame

ReloadNext ==
    \/ \E fn \in {"unified", "aggregated"}, force \in BOOLEAN, fresh \in BOOLEAN : GCall(fn, force, fresh)
    \/ \E lo \in ReloadResults : GRefresh(lo)
    \/ \E db \in {"ok", "fail"} : GRead(db)
    \/ \E lo \in ReloadResults : GReload(lo)
    \/ \E lo \in ReloadResults : GAggLoad(lo)

(***************************************************************************)
(* Concurrent calls of create_or_update_user_profile for one user,         *)
(* firestore.py lines 110-164: the document is read, the merged document   *)
(* is built from what was read, and it is written with set(); other calls  *)
(* run in between.                                                         *)
(***************************************************************************)
\* The profile_data of the callers: store_user_query_history (lines
\* 836-839) and add_favorite_location (lines 447-451).
ProfileData ==
    { "last_query" :> "Delhi news",
      "last_query" :> "Delhi tweets",
      "preferences" :> "favorites: Red Fort" }

IdleUpdate == [pc |-> "idle", data |-> <<>>, read |-> NoResult, ok |-> FALSE]

\* {**existing_data, **profile_data} with data_version + 1, lines 119-121,
\* or the new document with data_version 1, lines 128-131.  The
\* timestamps and the default preferences of the document are left out.
Merged(existing, data) ==
    IF existing # NoResult
    THEN [fields |-> data @@ existing.fields, data_version |-> existing.data_version + 1]
    ELSE [fields |-> data, data_version |-> 1]

PBegin(c, data) ==
    /\ pcalls[c].pc = "idle"
    /\ pcalls' = [pcalls EXCEPT ![c] = [@ EXCEPT !.pc = "get", !.data = data]]
    /\ UNCHANGED profile
    /\ ProfileFrame

\* Line 116: user_ref.get(); a failure ends the call with success False
\* (lines 162-164).
PGet(c, st) ==
    /\ pcalls[c].pc = "get"
    /\ pcalls' = [pcalls EXCEPT ![c] =
            IF st = "ok" THEN [@ EXCEPT !.pc = "set", !.read = profile]
            ELSE [@ EXCEPT !.pc = "done"]]
    /\ UNCHANGED profile
    /\ ProfileFrame

\* Line 158: user_ref.set(merged_data), the document built from what
\* get() returned.
PSet(c, st) ==
    /\ pcalls[c].pc = "set"
    /\ profile' = IF st = "ok" THEN Merged(pcalls[c].read, pcalls[c].data) ELSE profile
    /\ pcalls' = [pcalls EXCEPT ![c] = [@ EXCEPT !.pc = "done", !.ok = (st = "ok")]]
    /\ ProfileFrame

ProfileNext ==
    \/ \E c \in Calls, data \in ProfileData : PBegin(c, data)
    \/ \E c \in Calls, st \in {"ok", "error"} : PGet(c, st)
    \/ \E c \in Calls, st \in {"ok", "error"} : PSet(c, st)

(***************************************************************************)
(* Specifications.                                                         *)
(***************************************************************************)
\* ---------------------------------------------------------------------
\* Podcast jobs: src/news-podcast-agent/app/api_server.py
\* ---------------------------------------------------------------------
\* The handlers and the background task are coroutines of one event loop:
\* they interleave only where one of them awaits.  generate_podcast_async
\* awaits once (line 92), and it is started after the response of the
\* generate request was sent.

MaxJobs == 2
JobIds == 1..MaxJobs

NoJob == [absent |-> TRUE]

\* Lines 157-167: the entry a generate request creates.
PendingJob ==
    [status |-> "pending", progress |-> 0, audio_file |-> FALSE,
     script |-> FALSE, error |-> FALSE]

\* job_status[job_id].update(...) of a key that is not in the dict raises
\* KeyError; it never creates the key.
HasJob(j) == job_status[j] # NoJob

\* Lines 119-128: the except block.  Its own update raises KeyError when the
\* entry is gone, and nothing catches that: the task ends with the error.
FailJob(j) ==
    IF HasJob(j)
    THEN /\ job_status' = [job_status EXCEPT ![j] =
                [@ EXCEPT !.status = "failed", !.progress = 0, !.error = TRUE]]
         /\ jtask' = [jtask EXCEPT ![j] = "done"]
    ELSE /\ job_status' = job_status
         /\ jtask' = [jtask EXCEPT ![j] = "faulted"]

\* Lines 147-183: generate_podcast.  uuid4 gives an id never used before.
Generate(j) ==
    /\ jtask[j] = "none"
    /\ \A i \in JobIds : i < j => jtask[i] # "none"
    /\ job_status' = [job_status EXCEPT ![j] = PendingJob]
    /\ jtask' = [jtask EXCEPT ![j] = "queued"]
    /\ UNCHANGED <<jdeleted, jresp>>
    /\ JobFrame

\* Lines 76-92: the task up to its await.  agent is the outcome of
\* PodcastAgent().
TaskStart(j, agent) ==
    /\ jtask[j] = "queued"
    /\ IF HasJob(j) /\ agent = "ok"
       THEN /\ job_status' = [job_status EXCEPT ![j] =
                   [@ EXCEPT !.status = "processing", !.progress = 30]]
            /\ jtask' = [jtask EXCEPT ![j] = "awaiting"]
       ELSE IF HasJob(j)
       THEN /\ job_status' = [job_status EXCEPT ![j] =
                   [@ EXCEPT !.status = "failed", !.progress = 0, !.error = TRUE]]
            /\ jtask' = [jtask EXCEPT ![j] = "done"]
       ELSE FailJob(j)
    /\ UNCHANGED <<jdeleted, jresp>>
    /\ JobFrame

\* Lines 92-128: the task after generate_podcast_script returned or raised.
\* synth is the outcome of synthesize_speech.
TaskFinish(j, script, synth) ==
    /\ jtask[j] = "awaiting"
    /\ IF script = "ok" /\ HasJob(j) /\ synth = "ok"
       THEN /\ job_status' = [job_status EXCEPT ![j] =
                   [@ EXCEPT !.status = "completed", !.progress = 100,
                             !.script = TRUE, !.audio_file = TRUE]]
            /\ jtask' = [jtask EXCEPT ![j] = "done"]
       ELSE IF script = "ok" /\ HasJob(j)
       THEN /\ job_status' = [job_status EXCEPT ![j] =
                   [@ EXCEPT !.status = "failed", !.progress = 0,
                             !.script = TRUE, !.error = TRUE]]
            /\ jtask' = [jtask EXCEPT ![j] = "done"]
       ELSE FailJob(j)
    /\ UNCHANGED <<jdeleted, jresp>>
    /\ JobFrame

\* Lines 185-193: get_job_status.
GetJobStatus(j) ==
    /\ jresp' = IF HasJob(j) THEN [code |-> 200, job |-> job_status[j]]
                ELSE [code |-> 404]
    /\ UNCHANGED <<job_status, jtask, jdeleted>>
    /\ JobFrame

\* Lines 195-202: list_jobs.
ListJobs ==
    /\ jresp' = [code |-> 200, total |-> Cardinality({j \in JobIds : HasJob(j)})]
    /\ UNCHANGED <<job_status, jtask, jdeleted>>
    /\ JobFrame

\* Lines 266-285: delete_job.
DeleteJob(j) ==
    /\ IF HasJob(j)
       THEN /\ job_status' = [job_status EXCEPT ![j] = NoJob]
            /\ jdeleted' = jdeleted \cup {j}
            /\ jresp' = [code |-> 200, deleted |-> j]
       ELSE /\ jresp' = [code |-> 404]
            /\ UNCHANGED <<job_status, jdeleted>>
    /\ UNCHANGED jtask
    /\ JobFrame

JobsNext ==
    \/ \E j \in JobIds : Generate(j)
    \/ \E j \in JobIds, agent \in {"ok", "raise"} : TaskStart(j, agent)
    \/ \E j \in JobIds, script \in {"ok", "raise"}, synth \in {"ok", "raise"} :
          TaskFinish(j, script, synth)
    \/ \E j \in JobIds : GetJobStatus(j)
    \/ ListJobs
    \/ \E j \in JobIds : DeleteJob(j)

\* ---------------------------------------------------------------------
\* /location_mood: src/apps/orchestrator/main.py 845-883
\* ---------------------------------------------------------------------
MoodLocations == {"Delhi", "Koramangala", "Red Fort"}
MoodDatetimes == {"none", "2025-07-20T10:00:00"}

\* What the cache and the live sources would give for the location, as
\* arguments of aggregate_api_results.
LivePayload(tweets, route) ==
    [p \in Range(AggParams) |->
        IF p = "twitter_data" /\ tweets
        THEN VDict("tweets" :> VList(<<OneEntry>>))
        ELSE IF p = "maps_data" /\ route
        THEN VDict(("duration" :> VStr(<<"20">>)) @@ ("duration_in_traffic" :> VStr(<<"35">>)))
        ELSE EmptyList]
LiveSources == {LivePayload(t, r) : t, r \in BOOLEAN}

\* The arguments of a call that aggregates what the sources hold.
LocationMoodArgsLive == lmreq.live

\* main.py 856-863: every argument is the empty list.
LocationMoodArgs == [p \in Range(AggParams) |-> EmptyList]

\* mood.py 56-60: the sources of the UnifiedResult as the mood aggregation
\* reads them.  An entry of a live payload is the text of a grim post.
AsItems(v) == IF v.t = "list" THEN [i \in 1..Len(v.v) |-> StrItem(TGrim)] ELSE <<>>
AsMaps(v) ==
    IF v.t # "dict" THEN MapsList
    ELSE IF DOMAIN v.v = {} THEN MapsEmpty
    ELSE IF "duration_in_traffic" \in DOMAIN v.v
    THEN MapsRoute(IF "duration" \in DOMAIN v.v /\ v.v["duration"] = v.v["duration_in_traffic"]
                   THEN 35 ELSE 20, 35)
    ELSE MapsError
AsUnified(agg) ==
    [twitter |-> AsItems(agg["twitter"]), reddit |-> AsItems(agg["reddit"]),
     news |-> AsItems(agg["news"]), google_search |-> AsItems(agg["google_search"]),
     maps |-> AsMaps(agg["maps"])]

\* A request arrives; live is what the cache and the sources hold then.
LMRequest(loc, dt, live) ==
    /\ lmreq = NoResult
    /\ lmreq' = [location |-> loc, datetime |-> dt, live |-> live]
    /\ UNCHANGED lmout
    /\ LocFrame

\* location_mood.  places is what get_must_visit_places_nearby returned,
\* geo the outcome of the geocoding, photos what fetch_user_photos_nearby
\* returned (it is called only with coordinates).
LocationMood(places, geo, photos) ==
    /\ lmreq # NoResult
    /\ lmout = NoResult
    /\ LET u == AsUnified(aggregate_api_results(LocationMoodArgs))
       IN  \E s \in [Range(TextSources) ->
                        UNION {analyze_sentiment(u[x]) : x \in Range(TextSources)}] :
              /\ \A x \in Range(TextSources) : s[x] \in analyze_sentiment(u[x])
              /\ lmout' = [location |-> lmreq.location,
                           datetime |-> lmreq.datetime,
                           mood |-> MoodOf(u, s),
                           must_visit_places |-> places,
                           user_photos |-> IF geo = "found" THEN photos ELSE 0]
    /\ UNCHANGED lmreq
    /\ LocFrame

LocMoodNext ==
    \/ \E loc \in MoodLocations, dt \in MoodDatetimes, live \in LiveSources :
          LMRequest(loc, dt, live)
    \/ \E places \in {"error", "places"}, geo \in {"raise", "empty", "found"},
          photos \in {0, 1} : LocationMood(places, geo, photos)

\* Every component starts idle: no call made, no input fixed.
Init ==
    /\ unified = EmptyUnified
    /\ moodOut = NoResult
    /\ sentOut = NoResult
    /\ aggArgs = NoArgs
    /\ aggOut = NoResult
    /\ imsg = <<>>
    /\ ipc = "idle"
    /\ itried = 0
    /\ illmCalls = 0
    /\ illmOut = NoResult
    /\ iout = NoResult
    /\ cache = <<>>
    /\ cacheNext = 1
    /\ seeded = 0
    /\ history = <<>>
    /\ cpc = "idle"
    /\ creq = NoResult
    /\ cintent = VNone
    /\ centities = VNone
    /\ cbranch = "none"
    /\ csuccess = FALSE
    /\ creply = VNone
    /\ crejected = 0
    /\ cstored = NoResult
    /\ cout = NoResult
    /\ hcalls = [c \in Calls |-> IdleCall]
    /\ wcalls = [c \in Calls |-> IdleWriter]
    /\ now = 0
    /\ shared = {}
    /\ seen = NoResult
    /\ lastAdd = [t \in {"news", "maps"} |-> NoResult]
    /\ rask = NoResult
    /\ rreply = NoResult
    /\ gcall = NoResult
    /\ gpc = "idle"
    /\ gfresh = FALSE
    /\ gdepth = 0
    /\ glevel = [unified |-> 0, aggregated |-> 0]
    /\ gloads = 0
    /\ gout = NoResult
    /\ pcalls = [c \in Calls |-> IdleUpdate]
    /\ profile = NoResult
    /\ job_status = [j \in JobIds |-> NoJob]
    /\ jtask = [j \in JobIds |-> "none"]
    /\ jdeleted = {}
    /\ jresp = NoResult
    /\ lmreq = NoResult
    /\ lmout = NoResult

SpecMood == Init /\ [][MoodNext]_vars

SpecAgg == Init /\ [][AggNext]_vars

SpecIntent == Init /\ [][IntentNext]_vars

SpecChat == Init /\ [][ChatNext]_vars

SpecHistory == Init /\ [][HistoryNext]_vars

SpecWrites == Init /\ [][WritesNext]_vars

SpecRecall == Init /\ [][RecallNext]_vars

SpecReload == Init /\ [][ReloadNext]_vars

SpecProfile == Init /\ [][ProfileNext]_vars

SpecJobs == Init /\ [][JobsNext]_vars

SpecLocMood == Init /\ [][LocMoodNext]_vars

(***************************************************************************)
(* Claims about the mood aggregator and the sentiment scorer (SpecMood).   *)
(***************************************************************************)
MoodReturned == moodOut # NoResult

AllSources == {"twitter", "reddit", "news", "google_search", "maps"}

\* C5: aggregate_mood on a UnifiedResult whose four lists are empty and whose
\* maps mapping is empty returns label neutral, score 0.0, no events, and a
\* source_breakdown of the five sources, each with score 0.0 and no keywords.
C5_NeutralDefault ==
    (MoodReturned /\ unified = EmptyUnified) =>
        /\ moodOut.mood_label = "neutral"
        /\ moodOut.mood_score = 0
        /\ moodOut.events = <<>>
        /\ DOMAIN moodOut.source_breakdown = AllSources
        /\ \A src \in AllSources :
              /\ moodOut.source_breakdown[src].score = 0
              /\ moodOut.source_breakdown[src].top_keywords = {}

C5_Witness == MoodReturned /\ unified = EmptyUnified

\* C6: the label is one of happy, tense, busy, neutral, chosen by first
\* match on the mean of the five scores: above 0.3 happy, below -0.3 tense,
\* otherwise busy if the transit signal is negative, else neutral.  So a
\* reported score above 0.3 comes with happy, one below -0.3 with tense, and
\* busy comes only with a negative transit signal.
C6_Mean5 == MoodTotal(unified, sentOut)           \* five times the mean, in 1/One
C6_Transit ==
    IF unified.maps.dict /\ unified.maps.dit # 0
       /\ unified.maps.dit # unified.maps.duration
    THEN -1 ELSE 0

C6_LabelSelection ==
    MoodReturned =>
        /\ moodOut.mood_label \in {"happy", "tense", "busy", "neutral"}
        /\ (10 * C6_Mean5 > 3 * 5 * One) => moodOut.mood_label = "happy"
        /\ (10 * C6_Mean5 < -(3 * 5 * One)) => moodOut.mood_label = "tense"
        /\ (/\ 10 * C6_Mean5 <= 3 * 5 * One
            /\ 10 * C6_Mean5 >= -(3 * 5 * One)) =>
                moodOut.mood_label = (IF C6_Transit < 0 THEN "busy" ELSE "neutral")
        /\ moodOut.mood_score > 30 => moodOut.mood_label = "happy"
        /\ moodOut.mood_score < -30 => moodOut.mood_label = "tense"
        /\ moodOut.mood_label = "busy" => C6_Transit < 0

C6_Witness ==
    /\ MoodReturned
    /\ moodOut.mood_label = "happy"
    /\ moodOut.mood_score > 30

\* C9: analyze_sentiment returns an average within [-1, 1] and at most five
\* keywords; (0.0, []) for the empty sequence; an item that is empty or has
\* no text, title or description is not counted in the divisor, and the
\* score is 0.0 when every item is skipped.
C9_HasText(t) ==
    IF t.dict THEN ~(t.text.empty /\ t.title.empty /\ t.description.empty)
    ELSE ~t.text.empty

C9_Pol(t) ==
    IF ~t.dict \/ ~t.text.empty THEN t.text.pol
    ELSE IF ~t.title.empty THEN t.title.pol ELSE t.description.pol

RECURSIVE C9_Sum(_)
C9_Sum(ts) ==
    IF ts = <<>> THEN 0
    ELSE (IF C9_HasText(Head(ts)) THEN C9_Pol(Head(ts)) ELSE 0) + C9_Sum(Tail(ts))

C9_Counted(ts) == Cardinality({i \in 1..Len(ts) : C9_HasText(ts[i])})

C9_SentimentBounds ==
    MoodReturned =>
        \A src \in Range(TextSources) :
            /\ sentOut[src].score >= -One
            /\ sentOut[src].score <= One
            /\ Cardinality(sentOut[src].keywords) <= 5
            /\ unified[src] = <<>> =>
                  (sentOut[src].score = 0 /\ sentOut[src].keywords = {})
            /\ C9_Counted(unified[src]) = 0 => sentOut[src].score = 0
            /\ sentOut[src].score * C9_Counted(unified[src])
                  = C9_Sum(unified[src]) * Lcm

C9_Witness ==
    /\ MoodReturned
    /\ \E src \in Range(TextSources) :
          /\ Len(unified[src]) = 2
          /\ C9_Counted(unified[src]) = 1
          /\ sentOut[src].score # 0

\* The keyword cap of C9 is reached: more than five distinct keywords.
C9_CapReached ==
    /\ MoodReturned
    /\ \E src \in Range(TextSources) :
          Cardinality(AllKeywords(unified[src])) > 5

(***************************************************************************)
(* Claims about the result aggregator (SpecAgg).                           *)
(***************************************************************************)
AggReturned == aggOut # NoResult

UnifiedKeys == {"reddit", "twitter", "news", "maps", "firestore", "rag", "google_search"}

AggDefault(k) == IF k = "maps" THEN EmptyDict ELSE EmptyList

\* C7: for every combination of arguments, also none at all, the call
\* returns a record with every UnifiedResult key: reddit, twitter, news,
\* maps, firestore, rag and google_search; a key whose source is absent
\* holds its empty default.
C7_AggregatorTotality ==
    AggReturned =>
        /\ aggOut.t = "dict"
        /\ DOMAIN aggOut.v = UnifiedKeys
        /\ \A p \in Range(AggParams) :
              aggArgs[p] = VNone => aggOut.v[AggKey(p)] = AggDefault(AggKey(p))

\* C8: an error payload passed for a source yields, under that source's
\* key, the same value as passing nothing: an empty list, and an empty
\* mapping for maps.
C8_NoErrorPropagation ==
    (AggReturned /\ aggOut.t = "dict") =>
        \A p \in Range(AggParams) :
            aggArgs[p] = ErrorPayload => aggOut.v[AggKey(p)] = AggDefault(AggKey(p))

(***************************************************************************)
(* Claims about extract_intent.                                            *)
(***************************************************************************)
IntentReturned == ipc = "done"

\* A value with a string intent and a mapping of entities.
IsParsedQuery(v) ==
    /\ v.t = "dict"
    /\ "intent" \in DOMAIN v.v
    /\ v.v["intent"].t = "str"
    /\ "entities" \in DOMAIN v.v
    /\ v.v["entities"].t = "dict"

\* C3: whatever the message and whatever the LLM collaborator does,
\* extract_intent returns a ParsedQuery: a string intent and a mapping of
\* entities (the unknown query when nothing could be extracted).
C3_AlwaysParsedQuery == IntentReturned => IsParsedQuery(iout)

\* Pattern k accepts msg: it matches and every captured group is non-blank.
C4_Accepts(k, msg) ==
    LET m == Search(Patterns[k].pat, msg)
    IN  m.ok /\ \A n \in DOMAIN m.caps : Strip(m.caps[n]) # <<>>

C4_Accepting(msg) == {k \in 1..NPatterns : C4_Accepts(k, msg)}

\* C4: the LLM is invoked at most once per call and only after every
\* pattern of the cascade rejected the message; a message some pattern
\* accepts is answered with the first accepting pattern's result and no LLM
\* invocation.
C4_RegexBeforeLLM ==
    /\ illmCalls <= 1
    /\ illmCalls = 1 => (itried = NPatterns /\ C4_Accepting(imsg) = {})
    /\ (IntentReturned /\ C4_Accepting(imsg) # {}) =>
            LET k == Min(C4_Accepting(imsg))
            IN  /\ illmCalls = 0
                /\ itried = k
                /\ iout = FamilyResult(Patterns[k].fam, Search(Patterns[k].pat, imsg))

\* A route query answered by the second route pattern, the last of the
\* cascade, without the LLM.
C4_Witness ==
    /\ IntentReturned
    /\ imsg = Join2(Join2(Join2(Spaced(<<"best", "route", "between">>), <<"Delhi">>), <<"and">>), <<"to">>)
    /\ itried = NPatterns
    /\ illmCalls = 0
    /\ iout = ParsedQuery("get_best_route",
                ("current_location" :> VStr(<<"Delhi">>)) @@ ("destination" :> VStr(<<"to">>)))

(***************************************************************************)
(* Claims about chat_router and dispatch_tool.                             *)
(***************************************************************************)
ChatEnded == cpc = "done"

\* C1: whatever the user, the message and the outcomes of the
\* collaborators, chat_router ends by returning a record with a string
\* intent, a mapping of entities and a string reply: no exception reaches
\* the caller and no path returns without such a record.
C1_AlwaysRecord ==
    ChatEnded =>
        /\ cout.kind = "record"
        /\ cout.intent.t = "str"
        /\ cout.entities.t = "dict"
        /\ cout.reply.t = "str"

\* The error texts of the tool wrappers.
C2_ToolErrors ==
    { TwCredentials, TwRateLimit, TwApiError,
      VStr(Spaced(<<"Error", "fetching", "reports">>) \o <<":", " ", "boom">>),
      VStr(Spaced(<<"Error", "fetching", "similar", "queries">>) \o <<":", " ", "boom">>) }

\* C2: the reply chat_router returns is never empty or blank and never the
\* error text of a tool wrapper.
C2_NoRawError ==
    (ChatEnded /\ cout.kind = "record" /\ cout.reply.t = "str") =>
        /\ Strip(cout.reply.v) # <<>>
        /\ cout.reply \notin C2_ToolErrors

\* C10: the reply of a places request is never built from a cached entry
\* whose places contain an error phrase, and when the most recent cached
\* entry was found to be such an entry it is no longer in the cache when the
\* live places fetch of the request is issued.
C10_PurgedBeforeFetch ==
    /\ (cbranch = "maps" /\ creply.t = "str") => ~HasError(<<creply>>)
    /\ (cbranch = "maps" /\ cpc = "fetch") =>
            \A i \in DOMAIN cache :
                cache[i].id = crejected =>
                    ~(AllStr(cache[i].data.v["places"].v) /\ HasError(cache[i].data.v["places"].v))

\* C11: when exactly one of twitter, reddit, news, google_search is
\* non-empty, whatever its polarity in [-1, 1], the label is neutral without
\* a transit signal and busy with one, never happy or tense; the polarity -1
\* with the transit signal gives a mean of exactly -0.3 and is still busy.
C11_NonEmpty == {src \in Range(TextSources) : unified[src] # <<>>}

C11_SingleSourceLabel ==
    (MoodReturned /\ Cardinality(C11_NonEmpty) = 1) =>
        /\ \A src \in C11_NonEmpty :
              sentOut[src].score >= -One /\ sentOut[src].score <= One
        /\ moodOut.mood_label \notin {"happy", "tense"}
        /\ C6_Transit = 0 => moodOut.mood_label = "neutral"
        /\ C6_Transit < 0 => moodOut.mood_label = "busy"

C11_Witness ==
    /\ MoodReturned
    /\ Cardinality(C11_NonEmpty) = 1
    /\ \A src \in C11_NonEmpty : sentOut[src].score = -One
    /\ C6_Transit < 0
    /\ 10 * C6_Mean5 = -(3 * 5 * One)
    /\ moodOut.mood_label = "busy"
    /\ moodOut.mood_score = -30

\* The words the patterns of the cascade key on.
C12_Keywords ==
    UNION {UNION {Patterns[k].pat[i].ws : i \in DOMAIN Patterns[k].pat} :
              k \in 1..NPatterns} \ {" "}

\* Text of word characters and spaces only, not blank.
C12_Text(x) == Strip(x) # <<>> /\ \A i \in 1..Len(x) : WordOrSpace(x[i])

\* Such text that holds none of the keywords.
C12_Plain(x) == C12_Text(x) /\ \A i \in 1..Len(x) : LowerOf(x[i]) \notin C12_Keywords

\* The location of a message '<LOCATION> tweets', when it has that shape.
C12_IsTweets(msg) ==
    /\ Len(msg) >= 3
    /\ LowerOf(msg[Len(msg)]) = "tweets"
    /\ msg[Len(msg) - 1] = " "
C12_Location(msg) == SubSeq(msg, 1, Len(msg) - 2)

\* The ways to read msg as '<head> A <sep> B'.
C12_Splits(msg, head, seps) ==
    LET h == Len(head)
    IN  IF Len(msg) >= h + 6 /\ [i \in 1..h |-> LowerOf(msg[i])] = head /\ msg[h + 1] = " "
        THEN {[a |-> SubSeq(msg, h + 2, i - 2), b |-> SubSeq(msg, i + 2, Len(msg))] :
                i \in {j \in (h + 3)..(Len(msg) - 2) :
                          /\ LowerOf(msg[j]) \in seps
                          /\ msg[j - 1] = " "
                          /\ msg[j + 1] = " "}}
        ELSE {}

C12_RouteFrom(msg) == C12_Splits(msg, Spaced(<<"route", "from">>), {"to"})
C12_RouteBetween(msg) == C12_Splits(msg, Spaced(<<"best", "route", "between">>), {"and"})

C12_Twitter(l) ==
    ParsedQuery("get_twitter_posts",
        ("location" :> VStr(Strip(l))) @@ ("topic" :> VStr(<<"general">>)))
C12_Route(s) ==
    ParsedQuery("get_best_route",
        ("current_location" :> VStr(Strip(s.a))) @@ ("destination" :> VStr(Strip(s.b))))

C20_FamilyOrder == <<"twitter", "reddit", "news", "reports", "similar", "google", "route">>
C20_Rank(fam) == CHOOSE i \in DOMAIN C20_FamilyOrder : C20_FamilyOrder[i] = fam
C20_IntentOf(fam) ==
    CASE fam = "twitter" -> "get_twitter_posts"
      [] fam = "reddit" -> "get_reddit_posts"
      [] fam = "news" -> "get_city_news"
      [] fam = "reports" -> "get_firestore_reports"
      [] fam = "similar" -> "get_similar_queries"
      [] fam = "google" -> "google_search"
      [] fam = "route" -> "get_best_route"

\* Pattern k matches msg, with or without a blank group.
C20_Matches(k, msg) == Search(Patterns[k].pat, msg).ok

\* The call returned from the cascade, not from the LLM.
C20_ByPattern == IntentReturned /\ illmCalls = 0

\* C20: the patterns are tried in the order twitter, reddit, news, reports,
\* similar, google, route; every pattern tried before the one that returns
\* either does not match or matches with a blank group; the result is that
\* of the earliest pattern matching with every group non-blank after
\* trimming, it carries that pattern's family intent, and no pattern after
\* it is tried.
C20_FirstMatchWins ==
    /\ \A j, k \in 1..NPatterns :
          j < k => C20_Rank(Patterns[j].fam) <= C20_Rank(Patterns[k].fam)
    /\ ipc = "cascade" =>
          /\ iout = NoResult
          /\ \A j \in 1..itried : ~C4_Accepts(j, imsg)
    /\ C20_ByPattern =>
          /\ itried \in 1..NPatterns
          /\ \A j \in 1..(itried - 1) : ~C4_Accepts(j, imsg)
          /\ C4_Accepts(itried, imsg)
          /\ iout = FamilyResult(Patterns[itried].fam, Search(Patterns[itried].pat, imsg))
          /\ iout.v["intent"] = Intent(C20_IntentOf(Patterns[itried].fam))

\* An earlier pattern matched with a blank group and was passed over, a
\* later pattern of another family returned, and a pattern after the winner
\* would have accepted the message too.
C20_Witness ==
    /\ C20_ByPattern
    /\ \E j \in 1..(itried - 1) :
          /\ C20_Matches(j, imsg)
          /\ Patterns[j].fam # Patterns[itried].fam
    /\ \E k \in (itried + 1)..NPatterns : C4_Accepts(k, imsg)

\* chat_router returned to its caller: a record or, on a bare return, None.
C13_Returned == ChatEnded /\ cout.kind # "exception"

\* C13: every call of chat_router that returns has made exactly one call of
\* store_user_query_history, after the final reply was determined, with the
\* request's user_id and query and with the intent, entities and reply of
\* the record it returns; no path returns without it.
C13_AppendBeforeReturn ==
    C13_Returned =>
        /\ cstored # NoResult
        /\ cstored.doc.user_id = creq.user_id
        /\ cstored.doc.query = creq.message
        /\ cout.kind = "record"
        /\ cstored.doc.response_data =
              [intent |-> cout.intent, entities |-> cout.entities, reply |-> cout.reply]
        /\ Len(history) = (IF cstored.st = "ok" THEN 1 ELSE 0)

\* What the caller sees is not touched by a step.
C14_SameAnswer ==
    /\ cintent' = cintent
    /\ centities' = centities
    /\ creply' = creply
    /\ cout' = cout

\* C14: a failing write is swallowed.  Whether the cache write-back of a
\* live result succeeds, returns an error or raises, dispatch_tool goes on
\* to return (True, reply) with the reply of the live call; whether the
\* history write succeeds, returns an error or raises, chat_router goes on
\* to return intent, entities and reply as they were before the write; so
\* the record returned after a failed history write is the one a
\* successful write would have stored.
C14_WriteSwallowed ==
    /\ [][cpc = "store" => (cpc' = "catchall" /\ csuccess' = TRUE /\ C14_SameAnswer)]_vars
    /\ [][cpc = "history" => (cpc' = "return" /\ C14_SameAnswer)]_vars
    /\ []((ChatEnded /\ cstored # NoResult /\ cout.kind = "record") =>
             cout = BotResponse(cstored.doc.response_data.intent,
                                cstored.doc.response_data.entities,
                                cstored.doc.response_data.reply))

\* A request whose history write raised and which returned its record.
C14_Witness ==
    /\ ChatEnded
    /\ cstored # NoResult
    /\ cstored.st = "raise"
    /\ history = <<>>
    /\ cout.kind = "record"
    /\ cout.reply = cstored.doc.response_data.reply

\* The branches of dispatch_tool and chat_router that read the cache.
C17_Cacheable == {"news", "maps", "reddit"}

\* The reply of the request was built from a cached document: the live
\* tools of these branches return mappings, never text.
C17_FromCache ==
    /\ cbranch \in C17_Cacheable
    /\ creply.t = "str"
    /\ creply # VStr(<<"REDDIT_ASYNC_CALL">>)
    /\ cpc \in {"catchall", "done"}
    /\ csuccess

\* The payload list of a document for a branch, or an empty list.
C17_Payload(d, branch) ==
    IF PayloadField(branch) \in DOMAIN d.data.v THEN d.data.v[PayloadField(branch)] ELSE EmptyList

\* A payload of texts that are all blank or that hold an error phrase.
C17_ErrorOrBlank(p) == AllStr(p.v) /\ (AllBlank(p.v) \/ HasError(p.v))

\* C17: a reply is built from a cached document only if that document is of
\* the request's location key and source type, younger than 24 hours, with
\* a non-empty payload that matches no error phrase; and a document the
\* dispatcher found blank or in error is no longer in the cache when the
\* live fetch is issued.
C17_ReuseConditions ==
    /\ C17_FromCache =>
          \E i \in DOMAIN cache :
              /\ cache[i].location = CacheKey(cbranch, centities.v)
              /\ cache[i].data_type = cbranch
              /\ ~cache[i].stale
              /\ Truthy(C17_Payload(cache[i], cbranch))
              /\ CacheVerdict(cbranch, cache[i].location, <<cache[i]>>).v = "hit"
              /\ CacheVerdict(cbranch, cache[i].location, <<cache[i]>>).reply = creply
              /\ ~C17_ErrorOrBlank(C17_Payload(cache[i], cbranch))
    /\ (cbranch \in C17_Cacheable /\ cpc = "fetch" /\ crejected # 0) =>
          \A i \in DOMAIN cache : cache[i].id # crejected

\* What the cache holds of an error result of a live tool: the write-back
\* of main.py lines 172-178 and 311-317 wraps the reply in a list, the
\* reload of firestore.py lines 530-559 stores it under "data".
C18_ErrorEntries ==
    { VDict("articles" :> VList(<<NewsErr>>)), VDict("places" :> VList(<<PlacesErr>>)),
      Loaded(NewsErr, "news"), Loaded(PlacesErr, "maps") }

\* C18: a live result is written to the cache only when the live call
\* succeeded: no document of the cache holds the error result of a live
\* call, whether the call was made by the dispatcher after its cache read
\* or by the cache read itself.
C18_WriteBackOnSuccess ==
    \A i \in DOMAIN cache : cache[i].data \notin C18_ErrorEntries

\* The intents dispatch_tool has a handler for.
C19_Handled ==
    { Intent("get_twitter_posts"), Intent("get_reddit_posts"), Intent("social_media"),
      Intent("get_city_news"), Intent("get_firestore_reports"), Intent("get_similar_queries"),
      Intent("google_search"), Intent("get_best_route"), Intent("get_must_visit_places"),
      Intent("poi"), Intent("history") }

\* The entities the handler of an intent needs.
C19_Required(intent) ==
    CASE intent = Intent("get_twitter_posts") -> {"location", "topic"}
      [] intent = Intent("get_reddit_posts") -> {"subreddit"}
      [] intent = Intent("social_media") -> {"source", "topic"}
      [] intent = Intent("get_city_news") -> {"city"}
      [] intent = Intent("get_firestore_reports") -> {"location", "topic"}
      [] intent = Intent("get_similar_queries") -> {"user_id", "query"}
      [] intent = Intent("google_search") -> {"query"}
      [] intent = Intent("get_best_route") -> {"current_location", "destination"}
      [] intent \in {Intent("get_must_visit_places"), Intent("poi")} -> {"location"}
      [] OTHER -> {}

\* An entity is missing, or missing or empty.
C19_Missing(e, k) == k \notin DOMAIN e
C19_Empty(e, k) == k \notin DOMAIN e \/ ~Truthy(e[k])

\* The entities dispatch_tool tests for truth; of the others it tests the
\* presence only, and a location stands in for a missing city.
C19_TestedForTruth == {"location", "topic"}
C19_Lacks(intent, e) ==
    \E k \in C19_Required(intent) :
        IF k = "city" THEN C19_Missing(e, "city") /\ C19_Empty(e, "location")
        ELSE IF k \in C19_TestedForTruth /\ intent # Intent("social_media") THEN C19_Empty(e, k)
        ELSE C19_Missing(e, k)

\* The message asks for the query history: the test of main.py line 331.
C19_HistoryQuestion(q) ==
    /\ Contains(Lower(q), <<"query">>)
    /\ \E w \in {"first", "previous", "last"} : Contains(Lower(q), <<w>>)

\* The steps of the fallback: dispatch_tool reports (False, "") without
\* touching the cache or the history, the router is entered from step 2 or
\* from a failed tool call and never twice, it touches neither store, and
\* what it returns, an answer to the request's message, is the reply that
\* enters step 5.
C19_Fallback(nohandler) ==
    /\ (cpc = "dispatch" /\ nohandler) =>
          /\ cpc' = "router"
          /\ csuccess' = FALSE
          /\ creply' = VStr(<<>>)
          /\ UNCHANGED storeVars
    /\ cpc' = "router" => cpc \in {"router", "dispatch", "tool"}
    /\ cpc \in {"router", "router2"} =>
          /\ UNCHANGED storeVars
          /\ cpc' \in {cpc, "router2", "catchall", "done"}
          /\ (cpc = "router2" => cpc' # "router")
          /\ cpc' = "catchall" =>
                \E out \in GeminiOutcomes \ {Raise} :
                    creply' \in { GeminiSays(out, creq.message),
                                  VStr(<<"[Fallback: Gemini]", " ">>
                                       \o GeminiSays(out, creq.message).v) }
          /\ (cpc' = "done" /\ cpc # "done") => cout'.kind = "exception"

C15_AllDone == \A c \in Calls : hcalls[c].pc = "done"

\* The record a call adds, and how often a record is in the collection.
C15_Entry(c) == HistoryEntry([user_id |-> hcalls[c].user, message |-> hcalls[c].query])
C15_Count(e) == Cardinality({i \in DOMAIN history : history[i] = e})
C15_Entries == {HistoryEntry([user_id |-> u, message |-> q]) : u \in ConcUsers, q \in ConcQueries}

\* C15 as stated: once all calls have completed, the collection holds one
\* record per call that returned.
C15_OnePerCompletedCall ==
    C15_AllDone =>
        Len(history) = Cardinality({c \in Calls : hcalls[c].out \in {"record", "none"}})

\* C15: under every interleaving the collection only grows at its end, no
\* record in it is changed or removed, and it holds each record as often
\* as there are calls whose add of that record succeeded: no add is lost,
\* and a call whose add failed or that never reached step 6 leaves none.
C15_HistoryAppendOnly ==
    /\ [][/\ Len(history') >= Len(history)
          /\ SubSeq(history', 1, Len(history)) = history]_vars
    /\ [](\A e \in C15_Entries :
            C15_Count(e) = Cardinality({c \in Calls : hcalls[c].added /\ C15_Entry(c) = e}))
    /\ [](Len(history) = Cardinality({c \in Calls : hcalls[c].added}))

\* Two calls of one user with one query have both added their record, and
\* one of them read the collection while the other's record was in it.
C15_Witness ==
    /\ C15_AllDone
    /\ \A c \in Calls : hcalls[c].added /\ hcalls[c].out = "record"
    /\ Len(history) = MaxCalls
    /\ \A i \in DOMAIN history : history[i] = history[1]
    /\ \E c \in Calls : hcalls[c].seen >= 1

\* The documents of the type a read asked for.
C16_OfType == {d \in shared : seen # NoResult /\ d.data_type = seen.type}

\* C16 as stated: a read within the TTL of the write that was completed
\* last returns first the payload of that write.
C16_LastAddWins ==
    (/\ seen # NoResult
     /\ lastAdd[seen.type] # NoResult
     /\ lastAdd[seen.type].ts >= seen.at - CacheTTL)
    => /\ seen.doc # NoResult
       /\ seen.doc.data = lastAdd[seen.type].data

\* C16: the first entry of a read is a document of the type asked for that
\* is within the TTL and whose timestamp, taken by its writer before the
\* add, is the greatest among the documents of the type; a read returns
\* nothing only when no document of the type is within the TTL; and a
\* write only adds one document of its own: no document in the collection
\* is read, changed or removed by it.
C16_LatestStampWins ==
    /\ [](seen # NoResult /\ seen.doc # NoResult =>
            /\ seen.doc \in C16_OfType
            /\ seen.doc.ts >= seen.at - CacheTTL
            /\ \A d \in C16_OfType : d.ts <= seen.doc.ts)
    /\ [](seen # NoResult /\ seen.doc = NoResult =>
            \A d \in C16_OfType : d.ts < seen.at - CacheTTL)
    /\ [][/\ shared \subseteq shared'
          /\ \A c \in Calls :
                wcalls[c].pc = "add" /\ wcalls'[c].pc = "done" =>
                    shared' \ shared \subseteq
                        {Stamped(wcalls[c].type, wcalls[c].data, wcalls[c].ts, c)}]_vars

\* Two writes of one type overlapped: the one stamped first was added
\* last, and the read returns the payload of the one stamped last.
C16_Witness ==
    /\ seen # NoResult
    /\ seen.doc # NoResult
    /\ lastAdd[seen.type] # NoResult
    /\ lastAdd[seen.type] \in shared
    /\ lastAdd[seen.type].ts >= seen.at - CacheTTL
    /\ lastAdd[seen.type].ts < seen.doc.ts
    /\ lastAdd[seen.type].data # seen.doc.data
    /\ \A c \in Calls : wcalls[c].pc = "done"

(***************************************************************************)
(* Further claims about extract_intent (SpecIntent).                       *)
(***************************************************************************)
\* A message 'reports in LOCATION on TOPIC' with LOCATION and TOPIC one
\* word each.
C21_IsReports(msg) ==
    /\ Len(msg) = 9
    /\ SubSeq(msg, 1, 4) = <<"reports", " ", "in", " ">>
    /\ SubSeq(msg, 6, 8) = <<" ", "on", " ">>
    /\ \A i \in {5, 9} : msg[i] # " " /\ WordOrSpace(msg[i])

C21_Reports(msg) ==
    ParsedQuery("get_firestore_reports",
        ("location" :> VStr(<<msg[5]>>)) @@ ("topic" :> VStr(<<msg[9]>>)))

\* The words the twitter, reddit, news and reports patterns key on: the
\* patterns tried up to the reports family.
C21_Keywords ==
    UNION {UNION {Patterns[k].pat[i].ws : i \in DOMAIN Patterns[k].pat} :
              k \in {j \in 1..NPatterns :
                        Patterns[j].fam \in {"twitter", "reddit", "news", "reports"}}} \ {" "}

C22_TrafficDiffers ==
    /\ unified.maps.dict
    /\ unified.maps.dit # 0
    /\ unified.maps.dit # unified.maps.duration

\* The five terms, in units of 1/One, and their sum.
C22_Term(src) ==
    IF src = "maps" THEN (IF C22_TrafficDiffers THEN -(One \div 2) ELSE 0)
    ELSE IF C9_Counted(unified[src]) = 0 THEN 0
    ELSE (C9_Sum(unified[src]) * Lcm) \div C9_Counted(unified[src])

C22_Sum ==
    C22_Term("twitter") + C22_Term("reddit") + C22_Term("news")
    + C22_Term("google_search") + C22_Term("maps")

C23_SourceCount(src, k) ==
    Cardinality({i \in 1..Len(unified[src]) :
                    ~Falsy(unified[src][i]) /\ k \in Content(unified[src][i]).evs})

C23_Total(k) ==
    C23_SourceCount("twitter", k) + C23_SourceCount("reddit", k)
    + C23_SourceCount("news", k) + C23_SourceCount("google_search", k)

C23_Entries(k) == {i \in 1..Len(moodOut.events) : moodOut.events[i].type = k}

\* C23: the events of a MoodResult hold at most one entry per keyword; a
\* keyword has an entry exactly when it is detected in some text source;
\* the entry's count is the sum of the four sources' counts and its sources
\* are exactly the sources in which the keyword is detected.
C23_EventMerge ==
    MoodReturned =>
        /\ \A i \in 1..Len(moodOut.events) : moodOut.events[i].type \in Range(EVENT_KEYWORDS)
        /\ \A k \in Range(EVENT_KEYWORDS) :
              /\ Cardinality(C23_Entries(k)) <= 1
              /\ (C23_Entries(k) = {}) <=> (C23_Total(k) = 0)
              /\ \A i \in C23_Entries(k) :
                    /\ moodOut.events[i].count = C23_Total(k)
                    /\ moodOut.events[i].sources =
                          {src \in Range(TextSources) : C23_SourceCount(src, k) > 0}

\* A keyword detected in two sources and another detected in none.
C23_Witness ==
    /\ MoodReturned
    /\ C23_SourceCount("twitter", "accident") = 1
    /\ C23_SourceCount("news", "accident") = 1
    /\ \E i \in C23_Entries("accident") :
          /\ moodOut.events[i].count = 2
          /\ moodOut.events[i].sources = {"twitter", "news"}
    /\ C23_Entries("festival") = {}

(***************************************************************************)
(* Further claims about chat_router and dispatch_tool (SpecChat).          *)
(***************************************************************************)
\* The user_id the message names, when the cascade extracts one.
C24_Named ==
    LET d == ChatCascade[creq.message]
    IN  IF d # NoResult /\ "user_id" \in DOMAIN d.v["entities"].v
        THEN d.v["entities"].v["user_id"] ELSE VNone

C24_Caller == VStr(<<creq.user_id>>)

\* C24: once step 1 has attached the user_id, entities.user_id is the
\* user_id of the request, also when the extractor had produced a user_id
\* from the message: the history and similar-query handlers run with the
\* caller's id, and the returned and the persisted entities carry it.
C24_CallerIdentity ==
    /\ (cpc \notin {"idle", "extract", "done"}) =>
            /\ centities.t = "dict"
            /\ "user_id" \in DOMAIN centities.v
            /\ centities.v["user_id"] = C24_Caller
    /\ (cpc = "tool" /\ cbranch \in {"similar", "history"}) =>
            Get(centities.v, "user_id") = C24_Caller
    /\ (cout # NoResult /\ cout.kind = "record") =>
            cout.entities.v["user_id"] = C24_Caller
    /\ cstored # NoResult =>
            /\ cstored.doc.user_id = creq.user_id
            /\ cstored.doc.response_data.entities.v["user_id"] = C24_Caller

\* alice asks for the similar queries of user bob: the lookup ran and the
\* record returned names alice.
C24_Witness ==
    /\ cpc = "done"
    /\ creq.user_id = "alice"
    /\ C24_Named = VStr(<<"bob">>)
    /\ cbranch = "similar"
    /\ cout.kind = "record"
    /\ cout.entities.v["user_id"] = VStr(<<"alice">>)
    /\ cstored # NoResult

\* The LLM was asked and answered with a text.
C25_Answered == IntentReturned /\ illmCalls = 1 /\ ~illmOut.raises

\* The first segment of the answer that holds a "{", or 0.
C25_First ==
    IF \E i \in 1..Len(illmOut.text) : HasOpen(illmOut.text[i])
    THEN Min({i \in 1..Len(illmOut.text) : HasOpen(illmOut.text[i])})
    ELSE 0

\* The answer's first top-level {...} block is a well-formed JSON object
\* with an intent and entities.
C25_WellFormed ==
    /\ C25_First > 0
    /\ illmOut.text[C25_First].k = "obj"
    /\ {"intent", "entities"} \subseteq DOMAIN illmOut.text[C25_First].val.v

\* C25: when no pattern returned and the first top-level {...} block of the
\* LLM's answer is a well-formed JSON object {intent, entities},
\* extract_intent returns that object, whatever text surrounds the block.
C25_OutsideIgnored ==
    (C25_Answered /\ C25_WellFormed) => iout = illmOut.text[C25_First].val

\* The same when the text around the block holds no brace.
C25_ProseIgnored ==
    (/\ C25_Answered
     /\ C25_WellFormed
     /\ \A i \in 1..Len(illmOut.text) :
            i # C25_First => ~HasOpen(illmOut.text[i]) /\ ~HasClose(illmOut.text[i]))
    => iout = illmOut.text[C25_First].val

(***************************************************************************)
(* Claims about questions on the query history (SpecRecall).               *)
(***************************************************************************)
\* The records stored for the user who asks, oldest first.
C26_Mine == SelectSeq(history, LAMBDA r : r.user_id = rask.user)

C26_Names(words, q) == VStr(Spaced(words) \o <<" ">> \o Quoted(q))

\* C26: when the read of the history succeeds, a question containing
\* 'first' is answered with the earliest record stored for the user and one
\* containing 'last' with the most recent, however many records are stored;
\* with no record stored the reply says so.
C26_WholeHistory ==
    (rask # NoResult /\ rask.st = "ok") =>
        IF C26_Mine = <<>>
        THEN rreply = Str(<<"You", "haven't", "made", "any", "queries", "yet">>)
        ELSE /\ Contains(rask.message, <<"first">>) =>
                    rreply = C26_Names(<<"Your", "first", "query", "was", ":">>, C26_Mine[1].query)
             /\ Contains(rask.message, <<"last">>) =>
                    rreply = C26_Names(<<"Your", "last", "query", "was", ":">>,
                                       C26_Mine[Len(C26_Mine)].query)

\* The same for a user with at most HistoryLimit records.
C26_WithinLimit ==
    (rask # NoResult /\ rask.st = "ok" /\ Len(C26_Mine) <= HistoryLimit) =>
        IF C26_Mine = <<>>
        THEN rreply = Str(<<"You", "haven't", "made", "any", "queries", "yet">>)
        ELSE /\ Contains(rask.message, <<"first">>) =>
                    rreply = C26_Names(<<"Your", "first", "query", "was", ":">>, C26_Mine[1].query)
             /\ Contains(rask.message, <<"last">>) =>
                    rreply = C26_Names(<<"Your", "last", "query", "was", ":">>,
                                       C26_Mine[Len(C26_Mine)].query)

(***************************************************************************)
(* Claims about the reads that reload the cache (SpecReload).              *)
(***************************************************************************)
\* C27: a call of get_unified_data_from_firestore or of
\* get_aggregated_location_data_from_firestore triggers at most one reload
\* of live data and calls itself at most once, whatever the store holds and
\* whatever the live sources return.
C27_BoundedReload ==
    /\ gloads <= 1
    /\ glevel.unified <= 1
    /\ glevel.aggregated <= 1

\* The same for a call of get_unified_data_from_firestore alone.
C27_UnifiedBounded ==
    (gcall # NoResult /\ gcall.fn = "unified") =>
        /\ gloads <= 1
        /\ glevel.unified <= 1
        /\ glevel.aggregated = 0

(***************************************************************************)
(* Claims about the user profile (SpecProfile).                            *)
(***************************************************************************)
\* The calls that completed with success.
C28_Completed == {c \in Calls : pcalls[c].pc = "done" /\ pcalls[c].ok}

\* C28: once the calls have ended, the profile's data_version is the
\* number of completed calls and the profile holds every field a completed
\* call wrote, with a value that a completed call wrote to it.
C28_NoLostUpdate ==
    (/\ \A c \in Calls : pcalls[c].pc = "done"
     /\ C28_Completed # {}) =>
        /\ profile # NoResult
        /\ profile.data_version = Cardinality(C28_Completed)
        /\ \A c \in C28_Completed : \A f \in DOMAIN pcalls[c].data :
              /\ f \in DOMAIN profile.fields
              /\ \E d \in C28_Completed :
                    f \in DOMAIN pcalls[d].data /\ profile.fields[f] = pcalls[d].data[f]

\* C29: under any interleaving of generate, status, list and delete
\* requests with the background task, a completed job has progress 100 and
\* an audio file, a deleted job's entry never comes back, and no background
\* task ends with an uncaught error.
C29_Lifecycle ==
    \A j \in JobIds :
        /\ (HasJob(j) /\ job_status[j].status = "completed"
               => job_status[j].progress = 100 /\ job_status[j].audio_file)
        /\ (j \in jdeleted => ~HasJob(j))
        /\ jtask[j] # "faulted"

\* The parts of C29 the code keeps.  The status of an entry moves only
\* pending -> processing -> completed, or pending/processing -> failed, and
\* a completed or failed entry keeps its status.
C29_StatusMoves ==
    [][\A j \in JobIds :
          HasJob(j) /\ job_status'[j] # NoJob
             /\ job_status'[j].status # job_status[j].status
          => <<job_status[j].status, job_status'[j].status>> \in
                {<<"pending", "processing">>, <<"processing", "completed">>,
                 <<"pending", "failed">>, <<"processing", "failed">>}]_vars

\* A completed entry has progress 100 and an audio file; a deleted entry
\* never comes back.
C29_CompletedAndGone ==
    \A j \in JobIds :
        /\ (HasJob(j) /\ job_status[j].status = "completed"
               => job_status[j].progress = 100 /\ job_status[j].audio_file)
        /\ (j \in jdeleted => ~HasJob(j))

\* A job deleted while its task was still pending or processing.
C29_DeletedEarly ==
    \E j \in JobIds : j \in jdeleted /\ jtask[j] \in {"queued", "awaiting"}

=============================================================================
